---- MODULE Spec2Model ----
(***************************************************************************)
(* A model of the rtc ray tracer: the parallel render scheduler of         *)
(* Camera::render, the bounded recursion of World::color_at, hit selection *)
(* on an IntersectionList and the refractive-index walk.                   *)
(*                                                                         *)
(* Floating point colours are exact rationals [num, den]; den = 0 stands   *)
(* for the IEEE results of a division by zero (NaN when num = 0, an        *)
(* infinity otherwise).  One channel stands for the three (the code treats *)
(* r, g and b alike).                                                      *)
(***************************************************************************)
EXTENDS Integers, Sequences, FiniteSets, TLC

(***************************************************************************)
(* Bounds of the model.                                                    *)
(***************************************************************************)
HSize == 2
VSize == 1
MaxExtra == 1
MaxDepth == 3
MaxLen == 3
MaxXs == 6
MaxLights == 1
MaxSamples == 5
MaxShadowXs == 2
MaxObjects == 2
MaxColors == 3
NumLights == 2
MaxMsLevel == 3
UsizeBits == 3
MaxLamps == 2
MaxBounce == 2
MaxCalls == 3

VARIABLES
    cam,          \* the Camera: [invertible, level, method, mlevel]
    scene,        \* the World as the scheduler sees it: [failing, edge]
    pc,           \* position of each pixel task (closure of the inner map)
    lockHolder,   \* task holding the Mutex<Canvas> guard, or NoTask
    poisoned,     \* the Mutex poison flag
    pending,      \* colour a task has computed and not yet written
    image,        \* Canvas.pixels: coordinate -> quantized channel
    writers,      \* history: coordinate -> tasks that wrote it
    nwrites,      \* history: task -> write_pixel calls it made
    ncolor,       \* history: task -> World::color_at calls it made
    nsamples,     \* history: task -> offsets its strategy drew
    rdepth,       \* the depth argument of Camera::render
    naa,          \* history: task -> Camera::color_at (strategy) calls
    cdepth,       \* history: task -> depths of its centre-ray color_at calls
    renderState,  \* "running" | "returned" (Ok(canv)) | "panicked"
    wld,          \* the World and the call World::color_at(ray, depth)
    stack,        \* the nested color_at calls, outermost first
    callState,    \* "running" | "returned" | "panicked" | "idle"
    callResult,   \* the colour (in tenths) the outermost color_at returned
    nsteps,       \* history: steps the call has taken
    ilist,        \* IntersectionList.data
    hitState,     \* "raw" | "built" | "hit" | "panicked" | "idle"
    hitResult,    \* what hit() returned: an entry, or NoEntry
    hitInput,     \* history: the entries the list was made of
    xs,           \* the sorted list given to set_refractive_indices
    ix,           \* the intersection given to set_refractive_indices
    refrState,    \* "called" | "done" | "idle"
    refrOut,      \* the (n1, n2) it returned, in tenths
    msCfg,        \* Multisampling and its camera: [level, tol, hasRay]
    msSum,        \* color_sum
    msSqSum,      \* color_squared_sum
    msN,          \* n
    msState,      \* "first" | "second" | "returned" | "idle"
    msOut,        \* the colour anti_alias returned
    msHist,       \* history: the colours accumulated, in order
    shRays,       \* per light: [dist, xs] distance to it, intersections towards it
    shLight,      \* the light is_shadowed is asked about
    shState,      \* "called" | "done" | "panicked" | "idle"
    shOut,        \* what is_shadowed returned
    ltIn,         \* the arguments of a Material::lighting call
    ltState,      \* "called" | "done" | "panicked" | "idle"
    ltOut,        \* the colour lighting returned
    isShape,      \* the Shape whose intersect is called
    isRay,        \* the Ray given to it
    isState,      \* "called" | "done" | "idle"
    isOut,        \* the intersections returned (<<>> for None)
    sdWorld,      \* World.objects of the world being traced
    sdRay,        \* the Ray given to World::color_at
    sdXs,         \* the IntersectionList of intersect_world
    sdHit,        \* the Intersection returned by hit(), or NoShadeHit
    sdState,      \* position inside World::color_at, or its outcome
    ptPattern,    \* the StripePattern or Rings whose color_at is called
    ptPoint,      \* the pattern-space Point given to it
    ptState,      \* "called" | "done" | "idle"
    ptOut,        \* the Color returned
    bdAa,         \* the AntiAliasing value being built
    bdCalls,      \* history: the builder calls made, in order
    bdState,      \* "building" | "idle"
    ymEntry,      \* the camera entry of the YAML document
    ymState,      \* "called" | "done" | "panicked" | "idle"
    ymOut,        \* what make_camera returned
    mxIn,         \* the Matrix<4> whose inverse is asked for
    mxOut,        \* what inverse() returned (NoMatrix for None)
    mxBack,       \* the inverse of that inverse
    mxState,      \* "called" | "inverted" | "back" | "idle"
    bnWorld,      \* the world, ray and depth color_at was called with
    bnStack,      \* color_at calls in progress, the innermost last
    bnState,      \* "running" | "returned" | "idle"
    bnResult,     \* what the outermost color_at returned
    bnCasts,      \* the rays reflected_color cast, in order
    tpWorld,      \* a world, with the ray and depth of the call
    tpTwin,       \* the same world but for transparency and refractive index
    tpState,      \* "called" | "done" | "idle"
    tpOut,        \* color_at of the world and of its twin
    wxWorld,      \* the objects of the world
    wxRay,        \* the ray handed to intersect_world
    wxState,      \* "called" | "done" | "panicked" | "idle"
    wxOut,        \* the list intersect_world returned
    pdShape,      \* the primitive
    pdRay,        \* the ray
    pdIx,         \* the intersection PrecomputedData::new is given
    pdState,      \* "called" | "done" | "panicked" | "idle"
    pdComps       \* <<the PrecomputedData>>, or <<>>

renderVars == <<cam, scene, pc, lockHolder, poisoned, pending, image,
                writers, nwrites, ncolor, nsamples, renderState,
    rdepth, naa, cdepth>>

colorVars == <<wld, stack, callState, callResult, nsteps>>

hitVars == <<ilist, hitState, hitResult, hitInput>>

refrVars == <<xs, ix, refrState, refrOut>>

msaaVars == <<msCfg, msSum, msSqSum, msN, msState, msOut, msHist>>

shadowVars == <<shRays, shLight, shState, shOut>>

lightVars == <<ltIn, ltState, ltOut>>

intersectVars == <<isShape, isRay, isState, isOut>>

shadeVars == <<sdWorld, sdRay, sdXs, sdHit, sdState>>

patternVars == <<ptPattern, ptPoint, ptState, ptOut>>

builderVars == <<bdAa, bdCalls, bdState>>

yamlVars == <<ymEntry, ymState, ymOut>>

inverseVars == <<mxIn, mxOut, mxBack, mxState>>

bounceVars == <<bnWorld, bnStack, bnState, bnResult, bnCasts>>

transpVars == <<tpWorld, tpTwin, tpState, tpOut>>

worldXsVars == <<wxWorld, wxRay, wxState, wxOut>>

precomputeVars == <<pdShape, pdRay, pdIx, pdState, pdComps>>

vars == <<renderVars, colorVars, hitVars, refrVars, msaaVars, shadowVars,
          lightVars, intersectVars, shadeVars, patternVars, builderVars, yamlVars, inverseVars, bounceVars, transpVars, worldXsVars, precomputeVars>>

notPrecompute == <<renderVars, colorVars, hitVars, refrVars,
    msaaVars, shadowVars, lightVars, intersectVars,
    shadeVars, patternVars, builderVars, yamlVars,
    inverseVars, bounceVars, transpVars, worldXsVars>>
notWorldXs == <<renderVars, colorVars, hitVars, refrVars,
    msaaVars, shadowVars, lightVars, intersectVars,
    shadeVars, patternVars, builderVars, yamlVars,
    inverseVars, bounceVars, transpVars, precomputeVars>>
notTransp == <<renderVars, colorVars, hitVars, refrVars,
    msaaVars, shadowVars, lightVars, intersectVars,
    shadeVars, patternVars, builderVars, yamlVars,
    inverseVars, bounceVars, worldXsVars, precomputeVars>>
notBounce == <<renderVars, colorVars, hitVars, refrVars,
    msaaVars, shadowVars, lightVars, intersectVars,
    shadeVars, patternVars, builderVars, yamlVars,
    inverseVars, transpVars, worldXsVars, precomputeVars>>
notInverse == <<renderVars, colorVars, hitVars, refrVars,
    msaaVars, shadowVars, lightVars, intersectVars,
    shadeVars, patternVars, builderVars, yamlVars, bounceVars, transpVars, worldXsVars, precomputeVars>>
notYaml == <<renderVars, colorVars, hitVars, refrVars,
    msaaVars, shadowVars, lightVars, intersectVars,
    shadeVars, patternVars, builderVars, inverseVars, bounceVars, transpVars, worldXsVars, precomputeVars>>
notBuilder == <<renderVars, colorVars, hitVars, refrVars,
    msaaVars, shadowVars, lightVars, intersectVars,
    shadeVars, patternVars, yamlVars, inverseVars, bounceVars, transpVars, worldXsVars, precomputeVars>>
notRender == <<colorVars, hitVars, refrVars, msaaVars, shadowVars,
    lightVars, intersectVars, shadeVars, patternVars, builderVars, yamlVars, inverseVars, bounceVars, transpVars, worldXsVars, precomputeVars>>
notColor == <<renderVars, hitVars, refrVars, msaaVars, shadowVars,
    lightVars, intersectVars, shadeVars, patternVars, builderVars, yamlVars, inverseVars, bounceVars, transpVars, worldXsVars, precomputeVars>>
notHit == <<renderVars, colorVars, refrVars, msaaVars, shadowVars,
    lightVars, intersectVars, shadeVars, patternVars, builderVars, yamlVars, inverseVars, bounceVars, transpVars, worldXsVars, precomputeVars>>
notRefr == <<renderVars, colorVars, hitVars, msaaVars, shadowVars,
    lightVars, intersectVars, shadeVars, patternVars, builderVars, yamlVars, inverseVars, bounceVars, transpVars, worldXsVars, precomputeVars>>
notMsaa == <<renderVars, colorVars, hitVars, refrVars, shadowVars,
    lightVars, intersectVars, shadeVars, patternVars, builderVars, yamlVars, inverseVars, bounceVars, transpVars, worldXsVars, precomputeVars>>
notShadow == <<renderVars, colorVars, hitVars, refrVars, msaaVars,
    lightVars, intersectVars, shadeVars, patternVars, builderVars, yamlVars, inverseVars, bounceVars, transpVars, worldXsVars, precomputeVars>>
notIntersect == <<renderVars, colorVars, hitVars, refrVars, msaaVars,
    shadowVars, lightVars, shadeVars, patternVars, builderVars, yamlVars, inverseVars, bounceVars, transpVars, worldXsVars, precomputeVars>>
notPattern == <<renderVars, colorVars, hitVars, refrVars, msaaVars,
    shadowVars, lightVars, intersectVars, shadeVars, builderVars, yamlVars, inverseVars, bounceVars, transpVars, worldXsVars, precomputeVars>>
notShade == <<renderVars, colorVars, hitVars, refrVars, msaaVars,
    shadowVars, lightVars, intersectVars, patternVars, builderVars, yamlVars, inverseVars, bounceVars, transpVars, worldXsVars, precomputeVars>>
notLight == <<renderVars, colorVars, hitVars, refrVars, msaaVars,
    shadowVars, intersectVars, shadeVars, patternVars, builderVars, yamlVars, inverseVars, bounceVars, transpVars, worldXsVars, precomputeVars>>

(***************************************************************************)
(* Colours.                                                                *)
(***************************************************************************)
Rat(n, d) == [num |-> n, den |-> d]

\* Color::black()
Black == Rat(0, 1)

RECURSIVE Gcd(_, _)
Gcd(a, b) == IF b = 0 THEN a ELSE Gcd(b, a % b)

Abs(n) == IF n < 0 THEN -n ELSE n

\* The rational n / d in lowest terms (d >= 0; d = 0 is kept as NaN, +inf
\* or -inf by the sign of n).
Reduce(n, d) ==
    IF d = 0 THEN Rat(IF n > 0 THEN 1 ELSE IF n < 0 THEN -1 ELSE 0, 0)
    ELSE LET g == Gcd(Abs(n), d) IN Rat(n \div g, d \div g)

\* impl Add for Color
ColorAdd(a, b) == Reduce(a.num * b.den + b.num * a.den, a.den * b.den)

\* impl Mul for Color
ColorMul(a, b) == Reduce(a.num * b.num, a.den * b.den)

\* impl Sub for Color
ColorSub(a, b) == Reduce(a.num * b.den - b.num * a.den, a.den * b.den)

\* f64 `>`: false when the left side is NaN.
RatGreater(a, b) ==
    IF a.den = 0 THEN a.num > 0 ELSE a.num * b.den > b.num * a.den

\* impl Div<f64> for Color, by a sample count
ColorDiv(a, n) == Reduce(a.num, a.den * n)

\* scale_colors: (256.0 * c.clamp(0.0, 0.999)) as i32 as u8.  NaN stays NaN
\* through clamp and casts to 0; +inf clamps to 0.999, -inf to 0.
scale_colors(c) ==
    IF c.den = 0
    THEN IF c.num > 0 THEN 255 ELSE 0
    ELSE IF c.num <= 0 THEN 0
    ELSE IF 1000 * c.num >= 999 * c.den THEN 255
    ELSE (256 * c.num) \div c.den

(***************************************************************************)
(* Camera and the scheduler's view of the world.                           *)
(***************************************************************************)
Pixels == (0 .. HSize - 1) \X (0 .. VSize - 1)
NoTask == <<-1, -1>>
NoRay == [px |-> -1, py |-> -1, off |-> "none"]
Panic == Rat(-1, -1)

\* The offsets a ray is cast at: the pixel centre (0.5, 0.5), or one of two
\* jittered positions drawn by the anti-aliasing strategies.
Center == "center"
Jitter == {"jitterA", "jitterB"}

\* AntiAliasing configurations a Camera can carry: aa.level is what render
\* tests against 0, mlevel is the level stored inside the AAMethod value.
\* Camera::with_antialiasing(n) sets aa.level only; the method keeps the
\* level it was built with (5 for Stochastic::default()) unless it came from
\* AntiAliasing::with_level, which sets both.
AAConfigs ==
    { [level |-> 0, method |-> "Stochastic", mlevel |-> 5],
      [level |-> 2, method |-> "Stochastic", mlevel |-> 2],
      [level |-> 2, method |-> "Multisampling", mlevel |-> 2],
      [level |-> 1, method |-> "Stochastic", mlevel |-> 0],
      [level |-> 2, method |-> "Stochastic", mlevel |-> 5] }

\* The worlds rendered: `failing` is the set of pixels whose primary ray
\* makes World::color_at panic (an unwrap on a missing inverse or on an
\* unordered comparison), `edge` tells whether pixel (0,0) straddles an
\* edge, so that its colour depends on the sub-pixel offset.
Scenes ==
    { [failing |-> f, edge |-> e] :
        f \in { {}, {<<0, 0>>} },
        e \in BOOLEAN }

\* A ray_for_pixel that does not test the inverse.
ray_for_pixel_unchecked(c, px, py, off) == [px |-> px, py |-> py, off |-> off]

\* Camera::ray_for_pixel: None when the transform has no inverse.
ray_for_pixel(c, px, py, off) ==
    IF c.invertible THEN [px |-> px, py |-> py, off |-> off] ELSE NoRay

\* World::color_at as seen by a pixel task: a colour, or a panic.
WorldColorAt(s, r) ==
    IF <<r.px, r.py>> \in s.failing THEN Panic
    ELSE IF s.edge /\ r.px = 0 /\ r.py = 0 /\ r.off = "jitterB"
         THEN Rat(1, 2)
    ELSE Rat(3 * (1 + r.px + 2 * r.py), 4)

RECURSIVE SumColors(_)
SumColors(cs) ==
    IF cs = <<>> THEN Black ELSE ColorAdd(cs[1], SumColors(Tail(cs)))

RECURSIVE SumSquares(_)
SumSquares(cs) ==
    IF cs = <<>> THEN Black
    ELSE ColorAdd(ColorMul(cs[1], cs[1]), SumSquares(Tail(cs)))

\* The colours of the samples a strategy accumulates for the offsets it
\* draws: a sample whose ray is None is skipped.
SampleColors(c, s, p, offs) ==
    LET rays == [i \in 1 .. Len(offs) |-> ray_for_pixel(c, p[1], p[2], offs[i])]
        hit == SelectSeq(rays, LAMBDA r : r # NoRay)
    IN  [i \in 1 .. Len(hit) |-> WorldColorAt(s, hit[i])]

\* Stochastic::anti_alias for the offsets drawn: self.level samples, their
\* sum divided by self.level.
StochasticAntiAlias(c, s, p, offs) ==
    LET cols == SampleColors(c, s, p, offs)
    IN  IF \E i \in 1 .. Len(cols) : cols[i] = Panic THEN Panic
        ELSE ColorDiv(SumColors(cols), c.mlevel)

\* Multisampling::color_mean_variance(n, sum_of_squares, sum) >
\* tolerance^2 with tolerance 1.0, on exact rationals; with n = 0 the
\* estimate is NaN and every comparison with it is false.
VarianceAboveTolerance(n, cols) ==
    LET sq == SumSquares(cols)
        sm == SumColors(cols)
    IN  IF n = 0 THEN FALSE
        ELSE 3 * (n * sq.num * sm.den * sm.den - sm.num * sm.num * sq.den)
                 > n * n * n * sq.den * sm.den * sm.den

\* Whether Multisampling::anti_alias returns having drawn exactly `offs`:
\* the first loop draws self.level offsets, the second one more at a time
\* while the estimate is above tolerance^2.
MultisamplingStopsAt(c, s, p, offs) ==
    /\ Len(offs) >= c.mlevel
    /\ \A k \in c.mlevel .. Len(offs) - 1 :
          VarianceAboveTolerance(k, SampleColors(c, s, p, SubSeq(offs, 1, k)))
    /\ ~VarianceAboveTolerance(Len(offs), SampleColors(c, s, p, offs))

\* Multisampling::anti_alias for the offsets drawn: color_sum / n.
MultisamplingAntiAlias(c, s, p, offs) ==
    LET cols == SampleColors(c, s, p, offs)
    IN  IF \E i \in 1 .. Len(cols) : cols[i] = Panic THEN Panic
        ELSE ColorDiv(SumColors(cols), Len(offs))

\* AntiAliasing::anti_alias: dispatch on the method.
anti_alias(c, s, p, offs) ==
    IF c.method = "Stochastic" THEN StochasticAntiAlias(c, s, p, offs)
    ELSE MultisamplingAntiAlias(c, s, p, offs)

\* The offset sequences a strategy can draw for one pixel.
DrawnOffsets(c, s, p) ==
    IF c.method = "Stochastic" \/ p \in s.failing THEN [1 .. c.mlevel -> Jitter]
    ELSE { offs \in UNION { [1 .. n -> Jitter] :
                              n \in c.mlevel .. c.mlevel + MaxExtra } :
             MultisamplingStopsAt(c, s, p, offs) }

(***************************************************************************)
(* Camera::render.  One task per pixel (the closure of the inner           *)
(* into_par_iter().map); rayon runs them in any interleaving.              *)
(***************************************************************************)
Finished(st) == st \in {"done", "panicked", "abandoned"}

\* Canvas::write_pixel on the locked canvas.
write_pixel(img, x, y, c) == [img EXCEPT ![<<x, y>>] = scale_colors(c)]

\* Canvas::read_pixel: the stored u8 channel divided by 255.0.
read_pixel(img, x, y) == Reduce(img[<<x, y>>], 255)

\* A task writing the horizontally mirrored coordinate.
WriteCoordMirrored(p) == <<HSize - 1 - p[1], p[2]>>

\* The coordinate the task of pixel p passes to write_pixel.
WriteCoord(p) == <<p[1], p[2]>>

\* A render that traces every centre ray without reflections.
DepthPassedZero(depth) == 0

\* The depth render hands to world.color_at(r, depth).
DepthPassed(depth) == depth

\* A join that drops the tasks' panics.
JoinOutcomeLenient(pcs, pois) == "returned"

\* What render does once both collects have joined: rayon resumes a task's
\* panic in the caller; otherwise Arc::try_unwrap and Mutex::into_inner give
\* the canvas, the latter panicking on a poisoned mutex.
JoinOutcome(pcs, pois) ==
    IF (\E p \in Pixels : pcs[p] = "panicked") \/ pois
    THEN "panicked" ELSE "returned"

InitRender ==
    /\ cam \in { [invertible |-> i, level |-> a.level, method |-> a.method,
                  mlevel |-> a.mlevel] : i \in BOOLEAN, a \in AAConfigs }
    /\ scene \in Scenes
    /\ pc = [p \in Pixels |-> "start"]
    /\ lockHolder = NoTask
    /\ poisoned = FALSE
    /\ pending = [p \in Pixels |-> Black]
    /\ image = [p \in Pixels |-> 0]
    /\ writers = [p \in Pixels |-> {}]
    /\ nwrites = [p \in Pixels |-> 0]
    /\ ncolor = [p \in Pixels |-> 0]
    /\ nsamples = [p \in Pixels |-> 0]
    /\ rdepth \in {0, MaxDepth}
    /\ naa = [p \in Pixels |-> 0]
    /\ cdepth = [p \in Pixels |-> {}]
    /\ renderState = "running"

\* Level 0, ray_for_pixel gave None: the `if let` body is skipped.
SkipPixel(p) ==
    /\ renderState = "running" /\ pc[p] = "start" /\ cam.level = 0
    /\ ray_for_pixel(cam, p[1], p[2], Center) = NoRay
    /\ pc' = [pc EXCEPT ![p] = "done"]
    /\ UNCHANGED <<cam, scene, lockHolder, poisoned, pending, image, writers,
                   nwrites, ncolor, renderState>>
    /\ UNCHANGED nsamples
    /\ UNCHANGED <<rdepth, naa, cdepth>>
    /\ UNCHANGED notRender

\* image.lock().unwrap(): blocks while another task holds the guard; on a
\* poisoned mutex lock() returns Err and unwrap panics, dropping the guard.
\* At level 0 this is the receiver of write_pixel and is evaluated before
\* the argument world.color_at(r, depth); at level > 0 the colour is
\* already computed.
Lock(p) ==
    /\ renderState = "running"
    /\ \/ /\ cam.level = 0 /\ pc[p] = "start"
          /\ ray_for_pixel(cam, p[1], p[2], Center) # NoRay
       \/ /\ cam.level > 0 /\ pc[p] = "computed"
    /\ lockHolder = NoTask
    /\ IF poisoned
       THEN /\ pc' = [pc EXCEPT ![p] = "panicked"]
            /\ UNCHANGED lockHolder
       ELSE /\ pc' = [pc EXCEPT ![p] = IF cam.level = 0 THEN "tracing"
                                       ELSE "locked"]
            /\ lockHolder' = p
    /\ UNCHANGED <<cam, scene, poisoned, pending, image, writers, nwrites,
                   ncolor, renderState>>
    /\ UNCHANGED nsamples
    /\ UNCHANGED <<rdepth, naa, cdepth>>
    /\ UNCHANGED notRender

\* Level 0: world.color_at(r, depth) is evaluated with the guard held; a
\* panic unwinds through the guard and poisons the mutex, a colour is the
\* argument of write_pixel, after which the guard is dropped.
TraceCenterRay(p) ==
    /\ renderState = "running" /\ cam.level = 0
    /\ pc[p] = "tracing" /\ lockHolder = p
    /\ LET r == ray_for_pixel(cam, p[1], p[2], Center)
           c == WorldColorAt(scene, r)
           at == WriteCoord(p)
       IN  /\ ncolor' = [ncolor EXCEPT ![p] = @ + 1]
           /\ cdepth' = [cdepth EXCEPT ![p] = @ \cup {DepthPassed(rdepth)}]
           /\ IF c = Panic \/ at \notin Pixels
              THEN /\ pc' = [pc EXCEPT ![p] = "panicked"]
                   /\ poisoned' = TRUE
                   /\ UNCHANGED <<image, writers, nwrites>>
              ELSE /\ pc' = [pc EXCEPT ![p] = "done"]
                   /\ image' = write_pixel(image, at[1], at[2], c)
                   /\ writers' = [writers EXCEPT ![at] = @ \cup {p}]
                   /\ nwrites' = [nwrites EXCEPT ![p] = @ + 1]
                   /\ UNCHANGED poisoned
    /\ lockHolder' = NoTask
    /\ UNCHANGED <<cam, scene, pending, renderState>>
    /\ UNCHANGED nsamples
    /\ UNCHANGED <<rdepth, naa>>
    /\ UNCHANGED notRender

\* Level > 0: self.color_at(x, y, world, depth) starts, no guard taken yet.
BeginAntiAlias(p) ==
    /\ renderState = "running" /\ cam.level > 0 /\ pc[p] = "start"
    /\ pc' = [pc EXCEPT ![p] = "tracing"]
    /\ naa' = [naa EXCEPT ![p] = @ + 1]
    /\ UNCHANGED <<cam, scene, lockHolder, poisoned, pending, image, writers,
                   nwrites, ncolor, renderState>>
    /\ UNCHANGED nsamples
    /\ UNCHANGED <<rdepth, cdepth>>
    /\ UNCHANGED notRender

\* Level > 0: the strategy returns its colour, or a sample panics.
FinishAntiAlias(p) ==
    /\ renderState = "running" /\ cam.level > 0 /\ pc[p] = "tracing"
    /\ \E offs \in DrawnOffsets(cam, scene, p) :
          LET c == anti_alias(cam, scene, p, offs)
              n == Len(SampleColors(cam, scene, p, offs))
          IN  IF c = Panic
              THEN /\ pc' = [pc EXCEPT ![p] = "panicked"]
                   /\ ncolor' = [ncolor EXCEPT ![p] = @ + 1]
                   /\ UNCHANGED <<pending, nsamples>>
              ELSE /\ pc' = [pc EXCEPT ![p] = "computed"]
                   /\ ncolor' = [ncolor EXCEPT ![p] = @ + n]
                   /\ nsamples' = [nsamples EXCEPT ![p] = Len(offs)]
                   /\ pending' = [pending EXCEPT ![p] = c]
    /\ UNCHANGED <<cam, scene, lockHolder, poisoned, image, writers, nwrites,
                   renderState>>
    /\ UNCHANGED <<rdepth, naa, cdepth>>
    /\ UNCHANGED notRender

\* Level > 0: write_pixel(x, y, color) under the guard, which is then dropped.
WritePixel(p) ==
    /\ renderState = "running" /\ cam.level > 0
    /\ pc[p] = "locked" /\ lockHolder = p
    /\ LET at == WriteCoord(p)
       IN  IF at \notin Pixels
           THEN /\ pc' = [pc EXCEPT ![p] = "panicked"]
                /\ poisoned' = TRUE
                /\ UNCHANGED <<image, writers, nwrites>>
           ELSE /\ pc' = [pc EXCEPT ![p] = "done"]
                /\ image' = write_pixel(image, at[1], at[2], pending[p])
                /\ writers' = [writers EXCEPT ![at] = @ \cup {p}]
                /\ nwrites' = [nwrites EXCEPT ![p] = @ + 1]
                /\ UNCHANGED poisoned
    /\ lockHolder' = NoTask
    /\ UNCHANGED <<cam, scene, pending, ncolor, renderState>>
    /\ UNCHANGED nsamples
    /\ UNCHANGED <<rdepth, naa, cdepth>>
    /\ UNCHANGED notRender

\* rayon: once a task has panicked, items of the same sequential chunk that
\* have not started are never run.
Abandon(p) ==
    /\ renderState = "running" /\ pc[p] = "start"
    /\ \E q \in Pixels : pc[q] = "panicked"
    /\ pc' = [pc EXCEPT ![p] = "abandoned"]
    /\ UNCHANGED <<cam, scene, lockHolder, poisoned, pending, image, writers,
                   nwrites, ncolor, renderState>>
    /\ UNCHANGED nsamples
    /\ UNCHANGED <<rdepth, naa, cdepth>>
    /\ UNCHANGED notRender

\* Every task has finished: render returns Ok(canv) or panics.
Join ==
    /\ renderState = "running"
    /\ \A p \in Pixels : Finished(pc[p])
    /\ renderState' = JoinOutcome(pc, poisoned)
    /\ UNCHANGED <<cam, scene, pc, lockHolder, poisoned, pending, image,
                   writers, nwrites, ncolor>>
    /\ UNCHANGED nsamples
    /\ UNCHANGED <<rdepth, naa, cdepth>>
    /\ UNCHANGED notRender

IdleRender ==
    /\ cam = [invertible |-> TRUE, level |-> 0, method |-> "Stochastic",
              mlevel |-> 5]
    /\ scene = [failing |-> {}, edge |-> FALSE]
    /\ pc = [p \in Pixels |-> "done"]
    /\ lockHolder = NoTask
    /\ poisoned = FALSE
    /\ pending = [p \in Pixels |-> Black]
    /\ image = [p \in Pixels |-> 0]
    /\ writers = [p \in Pixels |-> {}]
    /\ nwrites = [p \in Pixels |-> 0]
    /\ ncolor = [p \in Pixels |-> 0]
    /\ nsamples = [p \in Pixels |-> 0]
    /\ rdepth = 0
    /\ naa = [p \in Pixels |-> 0]
    /\ cdepth = [p \in Pixels |-> {}]
    /\ renderState = "idle"

NextRender ==
    \/ \E p \in Pixels : SkipPixel(p)
    \/ \E p \in Pixels : Lock(p)
    \/ \E p \in Pixels : TraceCenterRay(p)
    \/ \E p \in Pixels : BeginAntiAlias(p)
    \/ \E p \in Pixels : FinishAntiAlias(p)
    \/ \E p \in Pixels : WritePixel(p)
    \/ \E p \in Pixels : Abandon(p)
    \/ Join

(***************************************************************************)
(* World::color_at, shade_hit and reflected_color.  Two primitives face    *)
(* each other (the planes of color_at_with_mutually_reflective_surfaces):  *)
(* the reflection of a ray that hit one of them is the ray towards the     *)
(* other.  Colours are integers, in tenths.                                *)
(***************************************************************************)
Objs == {"lower", "upper"}
Rays == {1, 2}
NoHit == "none"
UsizeMod == 2 ^ UsizeBits
PatternKinds == {"none", "stripes", "singular", "blendedSingularChild"}
None == -1
PanicValue == -2

Worlds ==
    { [ray |-> r, depth |-> d, hit |-> h, reflective |-> f, pattern |-> k,
       nlights |-> n, shadowed |-> sh] :
        r \in Rays, d \in 0 .. MaxDepth, h \in [Rays -> Objs \cup {NoHit}],
        f \in [Objs -> {0, 1}], k \in PatternKinds,
        n \in 0 .. MaxLights, sh \in BOOLEAN }

\* Shape::material().pattern: only the lower primitive carries a pattern.
PatternOf(w, o) == IF o = "lower" THEN w.pattern ELSE "none"

\* World::intersect_world + IntersectionList::hit: the primitive the ray
\* hits first, or NoHit.
HitOf(w, r) == w.hit[r]

\* comps.reflectv from comps.over_point: the ray towards the other primitive.
ReflectRay(r) == 3 - r

\* Blended::color_at: unwraps the inverse of each child's transform.
\* The other patterns index their colour list.
PatternColorAt(k) == IF k = "blendedSingularChild" THEN PanicValue ELSE 10

\* Pattern::color_at_object: None when the pattern's (or the object's)
\* transform has no inverse.
color_at_object(k) == IF k = "singular" THEN None ELSE PatternColorAt(k)

\* Material::lighting for the default coefficients, eye and normal towards a
\* white light: the pattern colour is unwrapped; ambient alone (0.1) in
\* shadow, ambient + diffuse + specular (1.9) otherwise.
lighting(k, inShadow) ==
    LET base == IF k = "none" THEN 10 ELSE color_at_object(k)
    IN  IF base \in {None, PanicValue} THEN PanicValue
        ELSE IF inShadow THEN 1 ELSE 19

\* World::is_shadowed(over_point, light): the first light is occluded in a
\* shadowed world.
is_shadowed(w, l) == w.shadowed /\ l = 1

\* The surface colour of shade_hit: the sum over the lights of lighting.
RECURSIVE SurfaceColor(_, _, _)
SurfaceColor(w, o, l) ==
    IF l = 0 THEN 0
    ELSE LET rest == SurfaceColor(w, o, l - 1)
             c == lighting(PatternOf(w, o), is_shadowed(w, l))
         IN  IF rest = PanicValue \/ c = PanicValue THEN PanicValue
             ELSE rest + c

\* A reflected_color that only tests the reflective coefficient.
CastsReflectionUnbounded(w, o, remaining) == w.reflective[o] # 0

\* reflected_color: black unless remaining > 0 and the material reflects.
CastsReflection(w, o, remaining) ==
    ~(remaining = 0 \/ w.reflective[o] = 0)

\* remaining - 1 on a usize.
Decrement(remaining) == (remaining - 1) % UsizeMod

Frame(r, rem) == [ray |-> r, remaining |-> rem, st |-> "enter",
                  surface |-> 0, value |-> 0]

InitColorAt ==
    /\ wld \in Worlds
    /\ stack = <<Frame(wld.ray, wld.depth)>>
    /\ callState = "running"
    /\ callResult = 0
    /\ nsteps = 0

IdleColorAt ==
    /\ wld = [ray |-> 1, depth |-> 0, hit |-> [r \in Rays |-> NoHit],
              reflective |-> [o \in Objs |-> 0], pattern |-> "none",
              nlights |-> 0, shadowed |-> FALSE]
    /\ stack = <<>>
    /\ callState = "idle"
    /\ callResult = 0
    /\ nsteps = 0

Top == stack[Len(stack)]

SetTop(f) == [stack EXCEPT ![Len(stack)] = f]

\* color_at finds no hit: Color::black().
ColorAtMiss ==
    /\ callState = "running" /\ Top.st = "enter"
    /\ HitOf(wld, Top.ray) = NoHit
    /\ stack' = SetTop([Top EXCEPT !.st = "ret", !.value = 0])
    /\ nsteps' = nsteps + 1
    /\ UNCHANGED <<wld, callState, callResult>>
    /\ UNCHANGED notColor

\* color_at finds a hit: shade_hit sums the lights, then reflected_color
\* either is black or calls color_at on the reflected ray.
ColorAtHit ==
    /\ callState = "running" /\ Top.st = "enter"
    /\ HitOf(wld, Top.ray) # NoHit
    /\ LET o == HitOf(wld, Top.ray)
           surface == SurfaceColor(wld, o, wld.nlights)
       IN  IF surface = PanicValue
           THEN /\ callState' = "panicked"
                /\ stack' = <<>>
           ELSE /\ callState' = callState
                /\ IF CastsReflection(wld, o, Top.remaining)
                   THEN stack' = Append(
                            SetTop([Top EXCEPT !.st = "wait",
                                               !.surface = surface]),
                            Frame(ReflectRay(Top.ray),
                                  Decrement(Top.remaining)))
                   ELSE stack' = SetTop([Top EXCEPT !.st = "ret",
                                                    !.surface = surface,
                                                    !.value = surface])
    /\ nsteps' = nsteps + 1
    /\ UNCHANGED <<wld, callResult>>
    /\ UNCHANGED notColor

\* The nested color_at returns into reflected_color, which scales it by
\* the reflective coefficient; shade_hit adds the surface colour.
ReflectedReturn ==
    /\ callState = "running" /\ Len(stack) > 1 /\ Top.st = "ret"
    /\ LET parent == stack[Len(stack) - 1]
           o == HitOf(wld, parent.ray)
           total == parent.surface + Top.value * wld.reflective[o]
       IN  stack' = [SubSeq(stack, 1, Len(stack) - 1)
                       EXCEPT ![Len(stack) - 1] =
                           [parent EXCEPT !.st = "ret", !.value = total]]
    /\ nsteps' = nsteps + 1
    /\ UNCHANGED <<wld, callState, callResult>>
    /\ UNCHANGED notColor

\* The outermost color_at returns to its caller.
ColorAtDone ==
    /\ callState = "running" /\ Len(stack) = 1 /\ Top.st = "ret"
    /\ callState' = "returned"
    /\ callResult' = Top.value
    /\ stack' = <<>>
    /\ nsteps' = nsteps + 1
    /\ UNCHANGED wld
    /\ UNCHANGED notColor

NextColorAt ==
    \/ ColorAtMiss
    \/ ColorAtHit
    \/ ReflectedReturn
    \/ ColorAtDone

(***************************************************************************)
(* IntersectionList::new and IntersectionList::hit.  An f64 is its class   *)
(* (NaN, infinite, finite), its sign bit and its magnitude, so that        *)
(* -0.0 and +0.0 are equal and differ in is_sign_positive.                 *)
(***************************************************************************)
F64(k, n, m) == [kind |-> k, neg |-> n, mag |-> m]
NaN == F64("nan", FALSE, 0)
PosInf == F64("inf", FALSE, 0)
TValues ==
    { NaN, PosInf, F64("fin", TRUE, 1), F64("fin", TRUE, 0),
      F64("fin", FALSE, 0), F64("fin", FALSE, 1), F64("fin", FALSE, 2) }
HitObjs == {"s1", "s2"}
Entries == [t : TValues, object : HitObjs]
NoEntry == [t |-> NaN, object |-> "none"]

\* f64::is_finite
is_finite(t) == t.kind = "fin"

\* f64::is_sign_positive: the sign bit is clear (true of +0.0).
is_sign_positive(t) == ~t.neg

\* The value of a non-NaN f64 on a scale on which infinities are +-1000.
ValueOf(t) ==
    LET m == IF t.kind = "inf" THEN 1000 ELSE t.mag
    IN  IF t.neg THEN -m ELSE m

\* a.partial_cmp(&b): None for NaN, else Less (-1), Equal (0), Greater (1).
partial_cmp(a, b) ==
    IF a.kind = "nan" \/ b.kind = "nan" THEN None
    ELSE IF ValueOf(a) < ValueOf(b) THEN -1
    ELSE IF ValueOf(a) = ValueOf(b) THEN 0 ELSE 1

\* Whether sort_unstable_by(|a, b| a.t.partial_cmp(&b.t).unwrap()) panics:
\* a slice of two or more compares every element at least once.
SortPanics(list) ==
    Len(list) >= 2 /\ \E i \in 1 .. Len(list) : list[i].t.kind = "nan"

\* The orders sort_unstable_by can leave the slice in: any arrangement that
\* is ascending under the comparator (the sort is not stable).
SortResults(list) ==
    { q \in { [i \in 1 .. Len(list) |-> list[f[i]]] :
                f \in Permutations(1 .. Len(list)) } :
        \A i \in 1 .. Len(q) - 1 : partial_cmp(q[i].t, q[i + 1].t) \in {-1, 0} }

\* The filter of hit(): x.t.is_finite() && x.t.is_sign_positive().
HitFilter(e) == is_finite(e.t) /\ is_sign_positive(e.t)

\* Iterator::min_by over the filtered entries: the first of the least.
RECURSIVE MinBy(_, _)
MinBy(list, best) ==
    IF list = <<>> THEN best
    ELSE IF best = NoEntry THEN MinBy(Tail(list), list[1])
    ELSE IF partial_cmp(list[1].t, best.t) = -1
         THEN MinBy(Tail(list), list[1])
    ELSE MinBy(Tail(list), best)

InitHit ==
    /\ hitInput \in UNION { [1 .. n -> Entries] : n \in 0 .. MaxLen }
    /\ ilist = hitInput
    /\ hitState = "raw"
    /\ hitResult = NoEntry

IdleHit ==
    /\ hitInput = <<>>
    /\ ilist = <<>>
    /\ hitState = "idle"
    /\ hitResult = NoEntry

\* IntersectionList::new(list), as World::intersect_world calls it on the
\* collected intersections: sorts, or panics in the comparator.
IntersectionListNew ==
    /\ hitState = "raw"
    /\ IF SortPanics(ilist)
       THEN /\ hitState' = "panicked"
            /\ UNCHANGED ilist
       ELSE /\ hitState' = "built"
            /\ ilist' \in SortResults(ilist)
    /\ UNCHANGED <<hitResult, hitInput>>
    /\ UNCHANGED notHit

\* IntersectionList::hit, on a list made by new or by a struct literal
\* (Sphere::intersect): sorts, filters and takes the minimum.
Hit ==
    /\ hitState \in {"raw", "built"}
    /\ IF SortPanics(ilist)
       THEN /\ hitState' = "panicked"
            /\ UNCHANGED <<ilist, hitResult>>
       ELSE /\ hitState' = "hit"
            /\ ilist' \in SortResults(ilist)
            /\ hitResult' = MinBy(SelectSeq(ilist', HitFilter), NoEntry)
    /\ UNCHANGED hitInput
    /\ UNCHANGED notHit

NextHit ==
    \/ IntersectionListNew
    \/ Hit

(***************************************************************************)
(* set_refractive_indices.  Refractive indices are in tenths.              *)
(***************************************************************************)
RefrObjs == {"A", "B", "C"}

\* Shape::material().refractive_index of the three glass spheres.
RefractiveIndex(o) ==
    CASE o = "A" -> 15 [] o = "B" -> 20 [] o = "C" -> 25

\* containers.last().map(|o| o.material().refractive_index)
LastIndex(containers) ==
    IF containers = <<>> THEN None
    ELSE RefractiveIndex(containers[Len(containers)])

\* An unwrap_or that falls back to 0.0.
UnwrapOrZero(n) == IF n = None THEN 0 ELSE n

\* unwrap_or(1.0)
UnwrapOr1(n) == IF n = None THEN 10 ELSE n

\* containers.iter().position(|o| *o == object): the first index, or 0.
Position(containers, o) ==
    IF \E i \in 1 .. Len(containers) : containers[i] = o
    THEN CHOOSE i \in 1 .. Len(containers) :
            /\ containers[i] = o
            /\ \A j \in 1 .. i - 1 : containers[j] # o
    ELSE 0

\* A toggle that never removes.
TogglePushOnly(containers, o) == Append(containers, o)

\* The update of the container stack for one entry: remove the primitive
\* if it is on the stack, push it otherwise.
Toggle(containers, o) ==
    LET at == Position(containers, o)
    IN  IF at # 0
        THEN SubSeq(containers, 1, at - 1)
                 \o SubSeq(containers, at + 1, Len(containers))
        ELSE Append(containers, o)

\* The loop of set_refractive_indices from entry i on.
RECURSIVE RefrWalk(_, _, _, _, _)
RefrWalk(list, x, i, containers, n1) ==
    IF i > Len(list) THEN <<UnwrapOr1(n1), UnwrapOr1(None)>>
    ELSE LET e == list[i]
             n1b == IF e = x THEN LastIndex(containers) ELSE n1
             after == Toggle(containers, e.object)
         IN  IF e = x THEN <<UnwrapOr1(n1b), UnwrapOr1(LastIndex(after))>>
             ELSE RefrWalk(list, x, i + 1, after, n1b)

set_refractive_indices(x, list) == RefrWalk(list, x, 1, <<>>, None)

\* The lists handed to set_refractive_indices are sorted by t: entry i has
\* t = i, except that with `tie` the second entry has the t of the first
\* (a tangent ray).
RefrLists ==
    { [i \in 1 .. Len(os) |->
          [t |-> IF tie /\ i = 2 THEN 1 ELSE i, object |-> os[i]]] :
        os \in UNION { [1 .. n -> RefrObjs] : n \in 1 .. MaxXs },
        tie \in BOOLEAN }

InitRefr ==
    /\ xs \in RefrLists
    /\ ix \in { xs[i] : i \in 1 .. Len(xs) }
    /\ refrState = "called"
    /\ refrOut = <<0, 0>>

IdleRefr ==
    /\ xs = <<>>
    /\ ix = [t |-> 0, object |-> "A"]
    /\ refrState = "idle"
    /\ refrOut = <<0, 0>>

\* PrecomputedData::new takes (n1, n2) from set_refractive_indices(ix, xs).
SetRefractiveIndices ==
    /\ refrState = "called"
    /\ refrOut' = set_refractive_indices(ix, xs)
    /\ refrState' = "done"
    /\ UNCHANGED <<xs, ix>>
    /\ UNCHANGED notRefr

NextRefr == SetRefractiveIndices

(***************************************************************************)
(* Multisampling::anti_alias, one loop iteration per step.  The colours    *)
(* World::color_at gives for the offsets drawn come from SampleSet.        *)
(***************************************************************************)
SampleSet == {Rat(0, 1), Rat(2, 1)}
Tolerances == {0, 1}

\* Multisampling::color_mean_variance: the three channels are alike, so
\* total_var is three times the variance of one.
color_mean_variance(n, sum_of_squares, sum) ==
    LET color_mean == ColorDiv(sum, n)
        color_var == ColorSub(ColorDiv(sum_of_squares, n),
                              ColorMul(color_mean, color_mean))
        total_var == ColorAdd(color_var, ColorAdd(color_var, color_var))
    IN  ColorDiv(total_var, n)

\* A loop test with the comparison reversed.
VarianceLoopReversed(n, sq, sm, tol) ==
    RatGreater(Rat(tol * tol, 1), color_mean_variance(n, sq, sm))

\* The test of the second loop:
\* color_mean_variance(n, ..) > error_tolerance * error_tolerance.
VarianceLoop(n, sq, sm, tol) ==
    RatGreater(color_mean_variance(n, sq, sm), Rat(tol * tol, 1))

InitMsaa ==
    /\ msCfg \in [level : 0 .. MaxMsLevel, tol : Tolerances, hasRay : BOOLEAN]
    /\ msSum = Black
    /\ msSqSum = Black
    /\ msN = 0
    /\ msState = "first"
    /\ msOut = Black
    /\ msHist = <<>>

IdleMsaa ==
    /\ msCfg = [level |-> 0, tol |-> 1, hasRay |-> TRUE]
    /\ msSum = Black
    /\ msSqSum = Black
    /\ msN = 0
    /\ msState = "idle"
    /\ msOut = Black
    /\ msHist = <<>>

\* while n < self.level: one offset is drawn, the colour of its ray (if the
\* camera gives one) is accumulated, and n is incremented either way.
MsFirstLoop ==
    /\ msState = "first" /\ msN < msCfg.level
    /\ IF msCfg.hasRay
       THEN \E c \in SampleSet :
               /\ msSum' = ColorAdd(msSum, c)
               /\ msSqSum' = ColorAdd(msSqSum, ColorMul(c, c))
               /\ msHist' = Append(msHist, c)
       ELSE UNCHANGED <<msSum, msSqSum, msHist>>
    /\ msN' = msN + 1
    /\ UNCHANGED <<msCfg, msState, msOut>>
    /\ UNCHANGED notMsaa

\* The first loop's test fails: control reaches the second loop.
MsFirstDone ==
    /\ msState = "first" /\ ~(msN < msCfg.level)
    /\ msState' = "second"
    /\ UNCHANGED <<msCfg, msSum, msSqSum, msN, msOut, msHist>>
    /\ UNCHANGED notMsaa

\* while color_mean_variance(..) > tolerance^2: one more offset; here n is
\* incremented only when the camera gives a ray.
MsSecondLoop ==
    /\ msState = "second" /\ msN < MaxSamples
    /\ VarianceLoop(msN, msSqSum, msSum, msCfg.tol)
    /\ IF msCfg.hasRay
       THEN \E c \in SampleSet :
               /\ msSum' = ColorAdd(msSum, c)
               /\ msSqSum' = ColorAdd(msSqSum, ColorMul(c, c))
               /\ msHist' = Append(msHist, c)
               /\ msN' = msN + 1
       ELSE UNCHANGED <<msSum, msSqSum, msHist, msN>>
    /\ UNCHANGED <<msCfg, msState, msOut>>
    /\ UNCHANGED notMsaa

\* The second loop's test fails: color_sum / n is returned.
MsReturn ==
    /\ msState = "second"
    /\ ~VarianceLoop(msN, msSqSum, msSum, msCfg.tol)
    /\ msOut' = ColorDiv(msSum, msN)
    /\ msState' = "returned"
    /\ UNCHANGED <<msCfg, msSum, msSqSum, msN, msHist>>
    /\ UNCHANGED notMsaa

NextMsaa == MsFirstLoop \/ MsFirstDone \/ MsSecondLoop \/ MsReturn

(***************************************************************************)
(* World::is_shadowed.  For each light of the world the model keeps the    *)
(* distance from the point to it and the intersections the primitives give *)
(* for the ray from the point towards it.                                  *)
(***************************************************************************)
ShadowTs ==
    { NaN, F64("fin", TRUE, 1), F64("fin", FALSE, 0), F64("fin", FALSE, 1),
      F64("fin", FALSE, 2) }

ShadowLists ==
    UNION { [1 .. n -> [t : ShadowTs, object : {"s1"}]] : n \in 0 .. MaxShadowXs }

Distances == {F64("fin", FALSE, 1), F64("fin", FALSE, 2)}

\* World::is_shadowed(p, light): intersect_world sorts the collected
\* intersections (panicking on an unordered pair), hit() sorts them again,
\* filters and takes the minimum; the answer is hit.t < distance.
World_is_shadowed(xsl, distance) ==
    LET sorted == CHOOSE q \in SortResults(xsl) : TRUE
        h == MinBy(SelectSeq(sorted, HitFilter), NoEntry)
    IN  IF h = NoEntry THEN FALSE
        ELSE partial_cmp(h.t, distance) = -1

InitShadow ==
    /\ shRays \in [1 .. NumLights -> [dist : Distances, xs : ShadowLists]]
    /\ shLight \in 1 .. NumLights
    /\ shState = "called"
    /\ shOut = FALSE

IdleShadow ==
    /\ shRays = [l \in 1 .. NumLights |->
                    [dist |-> F64("fin", FALSE, 1), xs |-> <<>>]]
    /\ shLight = 1
    /\ shState = "idle"
    /\ shOut = FALSE

\* self.is_shadowed(&comps.over_point, l)
IsShadowed ==
    /\ shState = "called"
    /\ IF SortPanics(shRays[shLight].xs)
       THEN /\ shState' = "panicked"
            /\ UNCHANGED shOut
       ELSE /\ shState' = "done"
            /\ shOut' = World_is_shadowed(shRays[shLight].xs,
                                          shRays[shLight].dist)
    /\ UNCHANGED <<shRays, shLight>>
    /\ UNCHANGED notShadow

NextShadow == IsShadowed

(***************************************************************************)
(* Material::lighting.  Vectors are integer triples along the axes, so     *)
(* that normalize, dot and reflect are exact; one colour channel stands    *)
(* for the three.                                                          *)
(***************************************************************************)
Axes ==
    { <<1, 0, 0>>, <<-1, 0, 0>>, <<0, 1, 0>>, <<0, -1, 0>>, <<0, 0, 1>>,
      <<0, 0, -1>> }

\* Vec3::dot
Dot(a, b) == a[1] * b[1] + a[2] * b[2] + a[3] * b[3]

VecSub(a, b) == <<a[1] - b[1], a[2] - b[2], a[3] - b[3]>>
VecScale(a, k) == <<a[1] * k, a[2] * k, a[3] * k>>
VecNeg(a) == <<-a[1], -a[2], -a[3]>>

Sign(n) == IF n > 0 THEN 1 ELSE IF n < 0 THEN -1 ELSE 0

\* Vec3::normalize of a non-zero vector along an axis.
Normalize(v) == <<Sign(v[1]), Sign(v[2]), Sign(v[3])>>

\* Vec3::reflect: *self - other * 2.0 * self.dot(other)
Reflect(v, n) == VecSub(v, VecScale(n, 2 * Dot(v, n)))

\* f64::powi on a rational.
RECURSIVE Powi(_, _)
Powi(r, k) ==
    IF k = 0 \/ r = Rat(1, 1) THEN Rat(1, 1) ELSE ColorMul(r, Powi(r, k - 1))

\* Material::default() and a second, duller material.
Materials ==
    { [color |-> Rat(1, 1), ambient |-> Rat(1, 10), diffuse |-> Rat(9, 10),
       specular |-> Rat(9, 10), shininess |-> 200],
      [color |-> Rat(1, 2), ambient |-> Rat(1, 5), diffuse |-> Rat(7, 10),
       specular |-> Rat(3, 10), shininess |-> 10] }

\* What self.pattern gives for the point: no pattern, a pattern colour, or
\* the None of color_at_object on a singular transform.
PatternResults == {"nopattern", "some", "singular"}
PatternColor == Rat(1, 4)

LightingInputs ==
    [material : Materials, pattern : PatternResults,
     intensity : {Rat(1, 1), Rat(1, 2)},
     position : { VecScale(a, 10) : a \in Axes }, point : {<<0, 0, 0>>},
     eyev : Axes, normalv : Axes, in_shadow : BOOLEAN]

\* A lighting that never tests in_shadow.
Material_lighting_unshadowed(a) ==
    LET color == IF a.pattern = "some" THEN PatternColor ELSE a.material.color
        effective_color == ColorMul(color, a.intensity)
        lightv == Normalize(VecSub(a.position, a.point))
        ambient == ColorMul(effective_color, a.material.ambient)
        light_dot_normal == Dot(lightv, a.normalv)
        reflectv == VecNeg(Reflect(lightv, a.normalv))
        reflect_dot_eye == Dot(reflectv, a.eyev)
        diffuse == ColorMul(ColorMul(effective_color, a.material.diffuse),
                            Rat(light_dot_normal, 1))
        specular ==
            IF reflect_dot_eye <= 0 THEN Black
            ELSE ColorMul(ColorMul(a.intensity, a.material.specular),
                          Powi(Rat(reflect_dot_eye, 1), a.material.shininess))
    IN  IF light_dot_normal < 0 THEN ambient
        ELSE ColorAdd(ColorAdd(ambient, diffuse), specular)

\* Material::lighting once the base colour is resolved.
Material_lighting(a) ==
    LET color == IF a.pattern = "some" THEN PatternColor ELSE a.material.color
        effective_color == ColorMul(color, a.intensity)
        lightv == Normalize(VecSub(a.position, a.point))
        ambient == ColorMul(effective_color, a.material.ambient)
        light_dot_normal == Dot(lightv, a.normalv)
        reflectv == VecNeg(Reflect(lightv, a.normalv))
        reflect_dot_eye == Dot(reflectv, a.eyev)
        diffuse == ColorMul(ColorMul(effective_color, a.material.diffuse),
                            Rat(light_dot_normal, 1))
        specular ==
            IF reflect_dot_eye <= 0 THEN Black
            ELSE ColorMul(ColorMul(a.intensity, a.material.specular),
                          Powi(Rat(reflect_dot_eye, 1), a.material.shininess))
    IN  IF a.in_shadow THEN ambient
        ELSE IF light_dot_normal < 0 THEN ambient
        ELSE ColorAdd(ColorAdd(ambient, diffuse), specular)

InitLighting ==
    /\ ltIn \in LightingInputs
    /\ ltState = "called"
    /\ ltOut = Black

IdleLighting ==
    /\ ltIn = CHOOSE a \in LightingInputs : TRUE
    /\ ltState = "idle"
    /\ ltOut = Black

\* The call: pat.color_at_object(object, point).unwrap() panics on None,
\* otherwise the colour is computed and returned.
Lighting ==
    /\ ltState = "called"
    /\ IF ltIn.pattern = "singular"
       THEN /\ ltState' = "panicked"
            /\ UNCHANGED ltOut
       ELSE /\ ltState' = "done"
            /\ ltOut' = Material_lighting(ltIn)
    /\ UNCHANGED ltIn
    /\ UNCHANGED notLight

NextLighting == Lighting

(***************************************************************************)
(* Shapes.  Points and vectors are triples of exact rationals; a transform *)
(* is the identity, a translation or a singular matrix.                    *)
(***************************************************************************)
\* f64 arithmetic on exact rationals.
FNeg(a) == Rat(-a.num, a.den)
FDiv(a, b) ==
    IF b.num = 0 THEN Rat(Sign(a.num), 0)
    ELSE IF b.num < 0 THEN Reduce(-(a.num * b.den), a.den * (-b.num))
    ELSE Reduce(a.num * b.den, a.den * b.num)
FLess(a, b) == a.den # 0 /\ b.den # 0 /\ a.num * b.den < b.num * a.den
FAbs(a) == Rat(Abs(a.num), a.den)

\* f64::sqrt of a rational that is a perfect square.
FSqrt(a) ==
    Rat(CHOOSE k \in 0 .. a.num : k * k = a.num,
        CHOOSE k \in 1 .. a.den : k * k = a.den)

\* pub const EPS: f64 = 0.00001
EPS == Rat(1, 100000)

P3(x, y, z) == <<Rat(x, 1), Rat(y, 1), Rat(z, 1)>>

\* Vec3::dot and Point/Vec3 addition on rational triples.
VDot(a, b) ==
    ColorAdd(ColorAdd(ColorMul(a[1], b[1]), ColorMul(a[2], b[2])),
             ColorMul(a[3], b[3]))
VAdd(a, b) == <<ColorAdd(a[1], b[1]), ColorAdd(a[2], b[2]), ColorAdd(a[3], b[3])>>

Identity == [kind |-> "identity", v |-> P3(0, 0, 0)]
Translation(x, y, z) == [kind |-> "translation", v |-> P3(x, y, z)]
Singular == [kind |-> "singular", v |-> P3(0, 0, 0)]

\* Matrix::inverse: None when the determinant is 0.
NoInverse == [kind |-> "none", v |-> P3(0, 0, 0)]

inverse(m) ==
    IF m.kind = "singular" THEN NoInverse
    ELSE [kind |-> m.kind, v |-> <<FNeg(m.v[1]), FNeg(m.v[2]), FNeg(m.v[3])>>]

\* Ray::transform: the matrix moves the origin and leaves a direction's
\* length and orientation to its linear part (none for a translation).
RayTransform(r, m) == [origin |-> VAdd(r.origin, m.v), direction |-> r.direction]

\* A sphere intersection that returns the roots in the opposite order.
Sphere_intersect_swapped(sh, r) ==
    IF inverse(sh.transform) = NoInverse THEN <<>>
    ELSE LET tr == RayTransform(r, inverse(sh.transform))
             sphere_to_ray == tr.origin
             a == VDot(tr.direction, tr.direction)
             b == ColorMul(Rat(2, 1), VDot(tr.direction, sphere_to_ray))
             c == ColorSub(VDot(sphere_to_ray, sphere_to_ray), Rat(1, 1))
             discrim == ColorSub(ColorMul(b, b),
                                 ColorMul(Rat(4, 1), ColorMul(a, c)))
         IN  IF FLess(discrim, Rat(0, 1)) THEN <<>>
             ELSE << [t |-> FDiv(ColorAdd(FNeg(b), FSqrt(discrim)),
                                 ColorMul(Rat(2, 1), a)), object |-> sh],
                     [t |-> FDiv(ColorSub(FNeg(b), FSqrt(discrim)),
                                 ColorMul(Rat(2, 1), a)), object |-> sh] >>

\* Sphere::intersect; <<>> stands for None.
Sphere_intersect(sh, r) ==
    IF inverse(sh.transform) = NoInverse THEN <<>>
    ELSE LET tr == RayTransform(r, inverse(sh.transform))
             sphere_to_ray == tr.origin
             a == VDot(tr.direction, tr.direction)
             b == ColorMul(Rat(2, 1), VDot(tr.direction, sphere_to_ray))
             c == ColorSub(VDot(sphere_to_ray, sphere_to_ray), Rat(1, 1))
             discrim == ColorSub(ColorMul(b, b),
                                 ColorMul(Rat(4, 1), ColorMul(a, c)))
         IN  IF FLess(discrim, Rat(0, 1)) THEN <<>>
             ELSE << [t |-> FDiv(ColorSub(FNeg(b), FSqrt(discrim)),
                                 ColorMul(Rat(2, 1), a)), object |-> sh],
                     [t |-> FDiv(ColorAdd(FNeg(b), FSqrt(discrim)),
                                 ColorMul(Rat(2, 1), a)), object |-> sh] >>

\* A plane intersection that tests the direction for exactly zero.
Plane_intersect_exact(sh, r) ==
    IF inverse(sh.transform) = NoInverse THEN <<>>
    ELSE LET tr == RayTransform(r, inverse(sh.transform))
         IN  IF tr.direction[2].num = 0 THEN <<>>
             ELSE << [t |-> FDiv(FNeg(tr.origin[2]), tr.direction[2]),
                      object |-> sh] >>

\* Plane::intersect; <<>> stands for None.
Plane_intersect(sh, r) ==
    IF inverse(sh.transform) = NoInverse THEN <<>>
    ELSE LET tr == RayTransform(r, inverse(sh.transform))
         IN  IF FLess(FAbs(tr.direction[2]), EPS) THEN <<>>
             ELSE << [t |-> FDiv(FNeg(tr.origin[2]), tr.direction[2]),
                      object |-> sh] >>

\* An intersect that treats a transform without inverse as the identity.
Shape_intersect_uninverted(sh, r) ==
    LET u == IF sh.transform = Singular
             THEN [sh EXCEPT !.transform = Identity] ELSE sh
        l == IF sh.kind = "sphere" THEN Sphere_intersect(u, r)
             ELSE Plane_intersect(u, r)
    IN  [i \in 1 .. Len(l) |-> [t |-> l[i].t, object |-> sh]]

\* impl Intersectable for Shape: intersect
Shape_intersect(sh, r) ==
    IF sh.kind = "sphere" THEN Sphere_intersect(sh, r)
    ELSE Plane_intersect(sh, r)

\* impl Intersectable for Shape: normal_at; <<>> stands for None.  On the
\* unit sphere the object-space point has magnitude 1, so normalize leaves
\* it as it is; a translation's inverse transpose leaves vectors alone.
Shape_normal_at(sh, pt) ==
    IF inverse(sh.transform) = NoInverse THEN <<>>
    ELSE IF sh.kind = "sphere" THEN VAdd(pt, inverse(sh.transform).v)
    ELSE P3(0, 1, 0)

Transforms ==
    { Identity, Translation(0, 1, 0), Translation(0, 0, 2), Singular }

Shapes == [kind : {"sphere", "plane"}, transform : Transforms]

\* Rays along the axes from integer points.
AxisRays ==
    { [origin |-> P3(0, y, z), direction |-> d] :
        y \in {-1, 0, 1, 2}, z \in {-5, 0, 5},
        d \in { P3(0, 0, 1), P3(0, 0, -1), P3(0, 1, 0), P3(0, -1, 0),
                P3(0, 0, 2) } }

\* Rays whose direction climbs by a y component around EPS.
GrazingRays ==
    { [origin |-> P3(0, y, 0), direction |-> <<Rat(0, 1), dy, Rat(1, 1)>>] :
        y \in {-1, 0, 1, 10},
        dy \in { Rat(1, 1000000), Rat(-1, 1000000), Rat(1, 100000),
                 Rat(-1, 100000), Rat(1, 2) } }

InitIntersect ==
    /\ isShape \in Shapes
    /\ isRay \in AxisRays \cup GrazingRays
    /\ isShape.kind = "sphere" => isRay \in AxisRays
    /\ isState = "called"
    /\ isOut = <<>>

IdleIntersect ==
    /\ isShape = [kind |-> "sphere", transform |-> Identity]
    /\ isRay = [origin |-> P3(0, 0, 0), direction |-> P3(0, 0, 1)]
    /\ isState = "idle"
    /\ isOut = <<>>

\* o.intersect(ray)
Intersect ==
    /\ isState = "called"
    /\ isOut' = Shape_intersect(isShape, isRay)
    /\ isState' = "done"
    /\ UNCHANGED <<isShape, isRay>>
    /\ UNCHANGED notIntersect

NextIntersect == Intersect

(***************************************************************************)
(* World::color_at over shapes: intersect_world, hit, PrecomputedData::new. *)
(***************************************************************************)
NoShadeHit == [t |-> Rat(0, 0), object |-> [kind |-> "none", transform |-> Singular]]

ShadeWorlds == UNION { [1 .. n -> Shapes] : n \in 1 .. MaxObjects }

ShadeRays ==
    { r \in AxisRays : r.origin[2] \in {Rat(0, 1), Rat(1, 1)}
                        /\ r.origin[3] \in {Rat(-5, 1), Rat(0, 1)} }

\* self.objects.iter().flat_map(|o| o.intersect(ray)).collect()
RECURSIVE Collect(_, _, _)
Collect(objects, r, i) ==
    IF i > Len(objects) THEN <<>>
    ELSE Shape_intersect(objects[i], r) \o Collect(objects, r, i + 1)

\* The list ordered by t; every t here is finite, so no comparison fails.
RECURSIVE SortByT(_)
SortByT(l) ==
    IF l = <<>> THEN <<>>
    ELSE LET m == CHOOSE i \in 1 .. Len(l) :
                     \A j \in 1 .. Len(l) : ~FLess(l[j].t, l[i].t)
         IN  <<l[m]>> \o SortByT([k \in 1 .. Len(l) - 1 |->
                                      IF k < m THEN l[k] ELSE l[k + 1]])

\* World::intersect_world
intersect_world(objects, r) == SortByT(Collect(objects, r, 1))

\* The zero of a plane's t = -origin.y / direction.y is -0.0 when the local
\* direction climbs (the numerator is -0.0); a sphere's zero root is the
\* difference of two equal values, +0.0.
NegativeZero(e, r) ==
    /\ e.t.num = 0
    /\ e.object.kind = "plane"
    /\ r.direction[2].num > 0

\* x.t.is_finite() && x.t.is_sign_positive()
ShadeHitFilter(e, r) ==
    /\ e.t.den # 0
    /\ e.t.num > 0 \/ (e.t.num = 0 /\ ~NegativeZero(e, r))

\* IntersectionList::hit: the candidates min_by can return; entries with
\* equal t are in the order sort_unstable_by left them.
ShadeHits(l, r) ==
    { l[i] : i \in { k \in 1 .. Len(l) :
        /\ ShadeHitFilter(l[k], r)
        /\ \A j \in 1 .. Len(l) :
              ShadeHitFilter(l[j], r) => ~FLess(l[j].t, l[k].t) } }

\* Ray::position
RayPosition(r, t) ==
    <<ColorAdd(r.origin[1], ColorMul(r.direction[1], t)),
      ColorAdd(r.origin[2], ColorMul(r.direction[2], t)),
      ColorAdd(r.origin[3], ColorMul(r.direction[3], t))>>

InitShade ==
    /\ sdWorld \in ShadeWorlds
    /\ sdRay \in ShadeRays
    /\ sdXs = <<>>
    /\ sdHit = NoShadeHit
    /\ sdState = "called"

IdleShade ==
    /\ sdWorld = <<>>
    /\ sdRay = [origin |-> P3(0, 0, 0), direction |-> P3(0, 0, 1)]
    /\ sdXs = <<>>
    /\ sdHit = NoShadeHit
    /\ sdState = "idle"

\* let xs = self.intersect_world(r)
ShadeIntersectWorld ==
    /\ sdState = "called"
    /\ sdXs' = intersect_world(sdWorld, sdRay)
    /\ sdState' = "intersected"
    /\ UNCHANGED <<sdWorld, sdRay, sdHit>>
    /\ UNCHANGED notShade

\* ix.hit() is None: Color::black()
ShadeMiss ==
    /\ sdState = "intersected"
    /\ ShadeHits(sdXs, sdRay) = {}
    /\ sdState' = "black"
    /\ UNCHANGED <<sdWorld, sdRay, sdXs, sdHit>>
    /\ UNCHANGED notShade

\* if let Some(hit) = ix.hit()
ShadeHit ==
    /\ sdState = "intersected"
    /\ \E e \in ShadeHits(sdXs, sdRay) : sdHit' = e
    /\ sdState' = "hit"
    /\ UNCHANGED <<sdWorld, sdRay, sdXs>>
    /\ UNCHANGED notShade

\* PrecomputedData::new, then self.shade_hit(&comps, remaining): the
\* expect on normal_at panics when the object has no normal.
ShadePrecompute ==
    /\ sdState = "hit"
    /\ sdState' =
          IF Shape_normal_at(sdHit.object, RayPosition(sdRay, sdHit.t)) = <<>>
          THEN "panicked" ELSE "shaded"
    /\ UNCHANGED <<sdWorld, sdRay, sdXs, sdHit>>
    /\ UNCHANGED notShade

NextShade == ShadeIntersectWorld \/ ShadeMiss \/ ShadeHit \/ ShadePrecompute

(***************************************************************************)
(* StripePattern::color_at and Rings::color_at.                            *)
(***************************************************************************)
Palette == <<"white", "black", "red", "green", "blue">>

\* A floor that rounds towards zero.
Floor_truncating(a) ==
    IF a.num < 0 THEN -((-a.num) \div a.den) ELSE a.num \div a.den

\* f64::floor: the largest integer not above a.
Floor(a) == a.num \div a.den

\* f64::sqrt followed by floor: the largest k with k * k <= a.
FloorSqrt(a) ==
    CHOOSE k \in 0 .. a.num :
        k * k * a.den <= a.num /\ (k + 1) * (k + 1) * a.den > a.num

\* A stripe index that takes the absolute value before the floor.
StripePattern_color_at_absfirst(p, pt) ==
    LET idx == Floor(FAbs(pt[1])) % Len(p.colors)
    IN  p.colors[idx + 1]

\* StripePattern::color_at (sequences are 1-based)
StripePattern_color_at(p, pt) ==
    LET idx == Abs(Floor(pt[1])) % Len(p.colors)
    IN  p.colors[idx + 1]

\* Rings::color_at
Rings_color_at(p, pt) ==
    LET idx == FloorSqrt(ColorAdd(ColorMul(pt[1], pt[1]),
                                  ColorMul(pt[3], pt[3]))) % Len(p.colors)
    IN  p.colors[idx + 1]

\* Pattern::color_at for the two variants
Pattern_color_at(p, pt) ==
    IF p.kind = "stripes" THEN StripePattern_color_at(p, pt)
    ELSE Rings_color_at(p, pt)

Patterns ==
    { [kind |-> k, colors |-> SubSeq(Palette, 1, n)] :
        k \in {"stripes", "rings"}, n \in 1 .. MaxColors }

PatternXs ==
    { Rat(-2, 1), Rat(-3, 2), Rat(-11, 10), Rat(-1, 1), Rat(-1, 2),
      Rat(-1, 10), Rat(0, 1), Rat(1, 2), Rat(9, 10), Rat(1, 1), Rat(3, 2),
      Rat(2, 1) }

PatternPoints ==
    { <<x, Rat(y, 1), Rat(z, 1)>> : x \in PatternXs, y \in 0 .. 2, z \in 0 .. 2 }

InitPattern ==
    /\ ptPattern \in Patterns
    /\ ptPoint \in PatternPoints
    /\ ptState = "called"
    /\ ptOut = "none"

IdlePattern ==
    /\ ptPattern = [kind |-> "stripes", colors |-> <<"white">>]
    /\ ptPoint = P3(0, 0, 0)
    /\ ptState = "idle"
    /\ ptOut = "none"

\* pattern.color_at(&pattern_pt)
PatternColorAtPoint ==
    /\ ptState = "called"
    /\ ptOut' = Pattern_color_at(ptPattern, ptPoint)
    /\ ptState' = "done"
    /\ UNCHANGED <<ptPattern, ptPoint>>
    /\ UNCHANGED notPattern

NextPattern == PatternColorAtPoint

(***************************************************************************)
(* The AntiAliasing builder.                                               *)
(***************************************************************************)
NoTolerance == -1

\* Stochastic::default() and Multisampling::default()
StochasticDefault == [kind |-> "Stochastic", level |-> 5, tol |-> NoTolerance]
MultisamplingDefault == [kind |-> "Multisampling", level |-> 5, tol |-> 1]

\* AntiAliasing::default()
AntiAliasingDefault == [method |-> StochasticDefault, level |-> 0, tol |-> 1]

\* The AAMethod values handed to with_method: the defaults, and a
\* Multisampling taken from another builder after with_level/with_tolerance.
BuilderMethods ==
    { StochasticDefault, MultisamplingDefault,
      [kind |-> "Multisampling", level |-> 2, tol |-> 2] }
BuilderLevels == {0, 2, 5}
BuilderTolerances == {1, 2}

BuilderCalls ==
    { [op |-> "with_method", arg |-> m] : m \in BuilderMethods }
    \cup { [op |-> "with_level", arg |-> l] : l \in BuilderLevels }
    \cup { [op |-> "with_tolerance", arg |-> e] : e \in BuilderTolerances }

\* AntiAliasing::set_method_tolerance
set_method_tolerance(aa, etol) ==
    IF aa.method.kind = "Multisampling"
    THEN [aa EXCEPT !.method.tol = etol] ELSE aa

\* AntiAliasing::set_method_level
set_method_level(aa, aa_level) == [aa EXCEPT !.method.level = aa_level]

\* AntiAliasing::with_method
with_method(aa, aa_method) == [aa EXCEPT !.method = aa_method]

\* A with_level that leaves the method alone.
with_level_plain(aa, aa_level) == [aa EXCEPT !.level = aa_level]

\* AntiAliasing::with_level
with_level(aa, aa_level) ==
    set_method_level([aa EXCEPT !.level = aa_level], aa_level)

\* AntiAliasing::with_tolerance
with_tolerance(aa, etol) ==
    set_method_tolerance([aa EXCEPT !.tol = etol], etol)

ApplyCall(aa, c) ==
    IF c.op = "with_method" THEN with_method(aa, c.arg)
    ELSE IF c.op = "with_level" THEN with_level(aa, c.arg)
    ELSE with_tolerance(aa, c.arg)

RECURSIVE ApplyCalls(_, _)
ApplyCalls(aa, cs) ==
    IF cs = <<>> THEN aa ELSE ApplyCalls(ApplyCall(aa, cs[1]), Tail(cs))

InitBuilder ==
    /\ bdAa = AntiAliasingDefault
    /\ bdCalls = <<>>
    /\ bdState = "building"

IdleBuilder ==
    /\ bdAa = AntiAliasingDefault
    /\ bdCalls = <<>>
    /\ bdState = "idle"

BuilderRunning == bdState = "building" /\ Len(bdCalls) < MaxCalls

\* .with_method(aa_method)
WithMethod ==
    /\ BuilderRunning
    /\ \E m \in BuilderMethods :
          /\ bdAa' = with_method(bdAa, m)
          /\ bdCalls' = Append(bdCalls, [op |-> "with_method", arg |-> m])
    /\ UNCHANGED bdState
    /\ UNCHANGED notBuilder

\* .with_level(aa_level)
WithLevel ==
    /\ BuilderRunning
    /\ \E l \in BuilderLevels :
          /\ bdAa' = with_level(bdAa, l)
          /\ bdCalls' = Append(bdCalls, [op |-> "with_level", arg |-> l])
    /\ UNCHANGED bdState
    /\ UNCHANGED notBuilder

\* .with_tolerance(etol)
WithTolerance ==
    /\ BuilderRunning
    /\ \E e \in BuilderTolerances :
          /\ bdAa' = with_tolerance(bdAa, e)
          /\ bdCalls' = Append(bdCalls, [op |-> "with_tolerance", arg |-> e])
    /\ UNCHANGED bdState
    /\ UNCHANGED notBuilder

NextBuilder == WithMethod \/ WithLevel \/ WithTolerance

(***************************************************************************)
(* io::yaml::make_camera and set_antialiasing.                             *)
(***************************************************************************)
RequiredKeys == <<"hsize", "vsize", "fov", "from", "to", "up">>

\* What a key of the camera entry holds: a value of the expected type, a
\* value of another type, or nothing.
KeyStates(k) ==
    IF k \in {"hsize", "from"} THEN {"ok", "wrongtype", "missing"}
    ELSE {"ok", "missing"}

\* A key that is absent from a hash (Option::None of the *_from_key helpers).
NoValue == -1

\* The `aa` entry: absent, not a hash, or a hash with optional keys.
AaBlocks ==
    { [kind |-> "absent"], [kind |-> "scalar"] }
    \cup { [kind |-> "hash", method |-> m, level |-> l, tolerance |-> e] :
             m \in {"absent", "nonstring", "random", "stochastic",
                    "multisampling", "msaa", "other"},
             l \in {NoValue, 2}, e \in {NoValue, 2} }

CameraEntries ==
    { [keys |-> ks, aa |-> a] :
        ks \in { f \in [1 .. Len(RequiredKeys) -> {"ok", "wrongtype", "missing"}] :
                   \A i \in 1 .. Len(RequiredKeys) :
                       f[i] \in KeyStates(RequiredKeys[i]) },
        a \in AaBlocks }

NoCamera == [kind |-> "None"]
YamlPanic == [kind |-> "panicked"]

\* usize_from_key(..).unwrap_or(default) and float_from_key(..).unwrap_or(default)
UnwrapOr(v, default) == IF v = NoValue THEN default ELSE v

\* set_antialiasing
set_antialiasing(h) ==
    IF h.aa.kind = "absent" THEN NoCamera
    ELSE IF h.aa.kind = "scalar" THEN YamlPanic
    ELSE LET level == UnwrapOr(h.aa.level, AntiAliasingDefault.level)
             etol == UnwrapOr(h.aa.tolerance, AntiAliasingDefault.tol)
         IN  IF h.aa.method \in {"absent", "nonstring"} THEN NoCamera
             ELSE IF h.aa.method \in {"random", "stochastic"}
             THEN [kind |-> "Some",
                   aa |-> with_level(with_method(AntiAliasingDefault,
                                                 StochasticDefault), level)]
             ELSE IF h.aa.method \in {"multisampling", "msaa"}
             THEN [kind |-> "Some",
                   aa |-> with_level(with_tolerance(
                              with_method(AntiAliasingDefault,
                                          MultisamplingDefault), etol), level)]
             ELSE NoCamera

\* make_camera: each required key is read with `?`, then the aa block;
\* the camera takes aa.level and aa.method.
make_camera(h) ==
    IF \E i \in 1 .. Len(RequiredKeys) : h.keys[i] # "ok" THEN NoCamera
    ELSE LET a == set_antialiasing(h)
         IN  IF a.kind # "Some" THEN a
             ELSE [kind |-> "Some", level |-> a.aa.level,
                   method |-> a.aa.method]

InitYaml ==
    /\ ymEntry \in CameraEntries
    /\ ymState = "called"
    /\ ymOut = NoCamera

IdleYaml ==
    /\ ymEntry = [keys |-> [i \in 1 .. Len(RequiredKeys) |-> "ok"],
                  aa |-> [kind |-> "absent"]]
    /\ ymState = "idle"
    /\ ymOut = NoCamera

\* camera = make_camera(hash)
MakeCamera ==
    /\ ymState = "called"
    /\ ymOut' = make_camera(ymEntry)
    /\ ymState' = IF make_camera(ymEntry) = YamlPanic THEN "panicked" ELSE "done"
    /\ UNCHANGED ymEntry
    /\ UNCHANGED notYaml

NextYaml == MakeCamera

(***************************************************************************)
(* Matrix<4>::inverse by cofactors.  A matrix is a tuple of rows of exact  *)
(* rationals.                                                              *)
(***************************************************************************)
RatRow(r) == [j \in 1 .. Len(r) |-> Rat(r[j], 1)]
RatMatrix(m) == [i \in 1 .. Len(m) |-> RatRow(m[i])]

\* Matrix::identity
Identity4 ==
    RatMatrix(<< <<1, 0, 0, 0>>, <<0, 1, 0, 0>>, <<0, 0, 1, 0>>, <<0, 0, 0, 1>> >>)

\* Matrix::translation
Matrix_translation(x, y, z) ==
    RatMatrix(<< <<1, 0, 0, x>>, <<0, 1, 0, y>>, <<0, 0, 1, z>>, <<0, 0, 0, 1>> >>)

\* Matrix::scaling
Matrix_scaling(x, y, z) ==
    RatMatrix(<< <<x, 0, 0, 0>>, <<0, y, 0, 0>>, <<0, 0, z, 0>>, <<0, 0, 0, 1>> >>)

\* Matrix::shear
Matrix_shear(xy, xz, yx, yz, zx, zy) ==
    RatMatrix(<< <<1, xy, xz, 0>>, <<yx, 1, yz, 0>>, <<zx, zy, 1, 0>>,
                 <<0, 0, 0, 1>> >>)

\* impl Mul for Matrix<4>
MatMul(a, b) ==
    [i \in 1 .. 4 |-> [j \in 1 .. 4 |->
        ColorAdd(ColorAdd(ColorAdd(ColorMul(a[i][1], b[1][j]),
                                   ColorMul(a[i][2], b[2][j])),
                          ColorMul(a[i][3], b[3][j])),
                 ColorMul(a[i][4], b[4][j]))]]

\* Matrix<4>::submatrix and Matrix<3>::submatrix: drop a row and a column.
Submatrix(m, row, col) ==
    [i \in 1 .. Len(m) - 1 |-> [j \in 1 .. Len(m) - 1 |->
        m[IF i < row THEN i ELSE i + 1][IF j < col THEN j ELSE j + 1]]]

\* Matrix<2>::determinant
Determinant2(m) ==
    ColorSub(ColorMul(m[1][1], m[2][2]), ColorMul(m[1][2], m[2][1]))

\* Matrix<3>::cofactor (minor with the sign of row + col)
Cofactor3(m, row, col) ==
    IF (row + col) % 2 = 0 THEN Determinant2(Submatrix(m, row, col))
    ELSE FNeg(Determinant2(Submatrix(m, row, col)))

\* Matrix<3>::determinant
Determinant3(m) ==
    ColorAdd(ColorAdd(ColorMul(m[1][1], Cofactor3(m, 1, 1)),
                      ColorMul(m[1][2], Cofactor3(m, 1, 2))),
             ColorMul(m[1][3], Cofactor3(m, 1, 3)))

\* Matrix<4>::cofactor
Cofactor4(m, row, col) ==
    IF (row + col) % 2 = 0 THEN Determinant3(Submatrix(m, row, col))
    ELSE FNeg(Determinant3(Submatrix(m, row, col)))

\* Matrix<4>::determinant
Determinant4(m) ==
    ColorAdd(ColorAdd(ColorAdd(ColorMul(m[1][1], Cofactor4(m, 1, 1)),
                               ColorMul(m[1][2], Cofactor4(m, 1, 2))),
                      ColorMul(m[1][3], Cofactor4(m, 1, 3))),
             ColorMul(m[1][4], Cofactor4(m, 1, 4)))

\* Matrix::is_invertible
is_invertible(m) == Determinant4(m) # Rat(0, 1)

NoMatrix == <<>>

\* An inverse that stores each cofactor at [row][col].
Matrix_inverse_untransposed(m) ==
    IF ~is_invertible(m) THEN NoMatrix
    ELSE [row \in 1 .. 4 |-> [col \in 1 .. 4 |->
             FDiv(Cofactor4(m, row, col), Determinant4(m))]]

\* Matrix::inverse: inverse[col][row] = cofactor(row, col) / determinant
Matrix_inverse(m) ==
    IF ~is_invertible(m) THEN NoMatrix
    ELSE [col \in 1 .. 4 |-> [row \in 1 .. 4 |->
             FDiv(Cofactor4(m, row, col), Determinant4(m))]]

MatrixParts == {-1, 0, 2}

\* Translations, scalings (singular when a factor is 0), unit shears
\* (singular e.g. for xy = yx = 1), a translation after a scaling, and the
\* matrix with an all-zero last row.
Matrices ==
    { Matrix_translation(x, y, z) : x \in MatrixParts, y \in MatrixParts,
                                    z \in MatrixParts }
    \cup { Matrix_scaling(x, y, z) : x \in MatrixParts, y \in MatrixParts,
                                     z \in MatrixParts }
    \cup { Matrix_shear(a, b, c, d, e, f) :
             a \in 0 .. 1, b \in 0 .. 1, c \in 0 .. 1, d \in 0 .. 1,
             e \in 0 .. 1, f \in 0 .. 1 }
    \cup { MatMul(Matrix_translation(x, 2, -1), Matrix_scaling(2, y, -1)) :
             x \in MatrixParts, y \in MatrixParts }
    \cup { RatMatrix(<< <<-4, 2, -2, -3>>, <<9, 6, 2, 6>>, <<0, -5, 1, -5>>,
                        <<0, 0, 0, 0>> >>) }

InitInverse ==
    /\ mxIn \in Matrices
    /\ mxOut = NoMatrix
    /\ mxBack = NoMatrix
    /\ mxState = "called"

IdleInverse ==
    /\ mxIn = Identity4
    /\ mxOut = NoMatrix
    /\ mxBack = NoMatrix
    /\ mxState = "idle"

\* m.inverse()
Invert ==
    /\ mxState = "called"
    /\ mxOut' = Matrix_inverse(mxIn)
    /\ mxState' = "inverted"
    /\ UNCHANGED <<mxIn, mxBack>>
    /\ UNCHANGED notInverse

\* m.inverse().unwrap().inverse()
InvertBack ==
    /\ mxState = "inverted"
    /\ mxOut # NoMatrix
    /\ mxBack' = Matrix_inverse(mxOut)
    /\ mxState' = "back"
    /\ UNCHANGED <<mxIn, mxOut>>
    /\ UNCHANGED notInverse

NextInverse == Invert \/ InvertBack

(***************************************************************************)
(* World::color_at, shade_hit and reflected_color with exact colours.      *)
(* The two facing primitives of the colour machine carry a whole material  *)
(* (reflective, transparency, refractive_index), the world carries up to   *)
(* MaxLamps lights, the l-th of intensity 1/l, and the set of lights the   *)
(* hit points are shadowed from.                                           *)
(***************************************************************************)
Coefficients == {Rat(0, 1), Rat(1, 2), Rat(1, 1)}
Transparencies == {Rat(0, 1), Rat(1, 1)}
RefractiveIndices == {Rat(1, 1), Rat(3, 2)}

BounceMaterials ==
    [reflective : Coefficients, transparency : Transparencies,
     refractive_index : RefractiveIndices]

\* Material::default(): transparency 0.0, refractive_index 1.0.
OpaqueMaterials ==
    { m \in BounceMaterials :
        /\ m.reflective \in {Rat(0, 1), Rat(1, 1)}
        /\ m.transparency = Rat(0, 1)
        /\ m.refractive_index = Rat(1, 1) }

BounceWorlds ==
    UNION { { [ray |-> r, depth |-> d, hit |-> h,
               material |-> [o \in Objs |-> IF o = "lower" THEN ml ELSE mu],
               nlights |-> n, shadow |-> sh] :
                r \in Rays, d \in 0 .. MaxBounce,
                h \in [Rays -> Objs \cup {NoHit}],
                ml \in BounceMaterials, mu \in OpaqueMaterials,
                sh \in SUBSET (1 .. n) } : n \in 0 .. MaxLamps }

\* PrecomputedData::new: the hit object, the reflected ray (over_point,
\* reflectv) and the refractive indices on both sides of the hit.  The
\* primitive behind the ray's origin, if any, is the container the ray
\* leaves (n1); the hit primitive is the one it enters (n2).
PrecomputedData_new(w, r) ==
    LET o == HitOf(w, r)
        behind == HitOf(w, ReflectRay(r))
    IN  [object |-> o,
         reflect |-> ReflectRay(r),
         n1 |-> IF behind \in Objs \ {o}
                THEN w.material[behind].refractive_index ELSE Rat(1, 1),
         n2 |-> w.material[o].refractive_index]

\* Material::lighting of the default white material, eye and normal
\* towards the light: ambient (0.1) in shadow, ambient + diffuse +
\* specular (1.9) otherwise, times the light's intensity.
LightTerm(l, inShadow) ==
    ColorMul(IF inShadow THEN Rat(1, 10) ELSE Rat(19, 10), Rat(1, l))

\* An is_shadowed that is true for every light once one light is occluded.
LightShadowedAny(w, l) == w.shadow # {}

\* World::is_shadowed(&comps.over_point, l)
LightShadowed(w, l) == l \in w.shadow

\* shade_hit: self.lights.iter().map(|l| Material::lighting(..)).sum()
RECURSIVE SurfaceSum(_, _)
SurfaceSum(w, l) ==
    IF l = 0 THEN Black
    ELSE ColorAdd(SurfaceSum(w, l - 1), LightTerm(l, LightShadowed(w, l)))

\* reflected_color: remaining == 0 || material().reflective == 0.0
ReflectsNothing(w, comps, remaining) ==
    remaining = 0 \/ w.material[comps.object].reflective = Rat(0, 1)

\* A reflected_color that returns the nested colour as it is.
ScaleReflectedNot(col, k) == col

\* reflected_color: col * comps.object.material().reflective
ScaleReflected(col, k) == ColorMul(col, k)

\* A shade_hit that adds a transmitted colour weighted by transparency.
ShadeSumRefracted(w, comps, surface, reflected) ==
    ColorAdd(ColorAdd(surface, reflected),
             ColorMul(w.material[comps.object].transparency, comps.n2))

\* shade_hit: surface + reflected
ShadeSum(w, comps, surface, reflected) == ColorAdd(surface, reflected)

RECURSIVE World_color_at(_, _, _)

\* World::reflected_color
reflected_color(w, comps, remaining) ==
    IF ReflectsNothing(w, comps, remaining) THEN Black
    ELSE ScaleReflected(World_color_at(w, comps.reflect, remaining - 1),
                        w.material[comps.object].reflective)

\* World::shade_hit
shade_hit(w, comps, remaining) ==
    ShadeSum(w, comps, SurfaceSum(w, w.nlights),
             reflected_color(w, comps, remaining))

\* World::color_at
World_color_at(w, r, remaining) ==
    IF HitOf(w, r) = NoHit THEN Black
    ELSE shade_hit(w, PrecomputedData_new(w, r), remaining)

BounceFrame(r, rem) ==
    [ray |-> r, remaining |-> rem, st |-> "enter", surface |-> Black,
     reflected |-> Black, value |-> Black,
     n1 |-> Rat(1, 1), n2 |-> Rat(1, 1)]

InitBounce ==
    /\ bnWorld \in BounceWorlds
    /\ bnStack = <<BounceFrame(bnWorld.ray, bnWorld.depth)>>
    /\ bnState = "running"
    /\ bnResult = Black
    /\ bnCasts = <<>>

IdleBounce ==
    /\ bnWorld = [ray |-> 1, depth |-> 0, hit |-> [r \in Rays |-> NoHit],
                  material |-> [o \in Objs |->
                      [reflective |-> Rat(0, 1), transparency |-> Rat(0, 1),
                       refractive_index |-> Rat(1, 1)]],
                  nlights |-> 0, shadow |-> {}]
    /\ bnStack = <<>>
    /\ bnState = "idle"
    /\ bnResult = Black
    /\ bnCasts = <<>>

BounceTop == bnStack[Len(bnStack)]

BounceSetTop(f) == [bnStack EXCEPT ![Len(bnStack)] = f]

\* color_at finds no hit: Color::black().
BounceMiss ==
    /\ bnState = "running" /\ BounceTop.st = "enter"
    /\ HitOf(bnWorld, BounceTop.ray) = NoHit
    /\ bnStack' = BounceSetTop([BounceTop EXCEPT !.st = "ret"])
    /\ UNCHANGED <<bnWorld, bnState, bnResult, bnCasts>>
    /\ UNCHANGED notBounce

\* color_at finds a hit: PrecomputedData::new, then shade_hit sums the
\* lights and calls reflected_color, which is black or calls color_at on
\* the reflected ray with remaining - 1.
BounceHit ==
    /\ bnState = "running" /\ BounceTop.st = "enter"
    /\ HitOf(bnWorld, BounceTop.ray) # NoHit
    /\ LET comps == PrecomputedData_new(bnWorld, BounceTop.ray)
           surface == SurfaceSum(bnWorld, bnWorld.nlights)
           seen == [BounceTop EXCEPT !.surface = surface,
                                     !.n1 = comps.n1, !.n2 = comps.n2]
       IN  IF ReflectsNothing(bnWorld, comps, BounceTop.remaining)
           THEN /\ bnStack' = BounceSetTop(
                        [seen EXCEPT !.st = "ret",
                                     !.value = ShadeSum(bnWorld, comps,
                                                        surface, Black)])
                /\ bnCasts' = bnCasts
           ELSE /\ bnStack' = Append(
                        BounceSetTop([seen EXCEPT !.st = "wait"]),
                        BounceFrame(comps.reflect, BounceTop.remaining - 1))
                /\ bnCasts' = Append(bnCasts,
                        [ray |-> comps.reflect,
                         remaining |-> BounceTop.remaining - 1])
    /\ UNCHANGED <<bnWorld, bnState, bnResult>>
    /\ UNCHANGED notBounce

\* The nested color_at returns into reflected_color, which scales its
\* colour; shade_hit adds the surface colour.
BounceReturn ==
    /\ bnState = "running" /\ Len(bnStack) > 1 /\ BounceTop.st = "ret"
    /\ LET parent == bnStack[Len(bnStack) - 1]
           comps == PrecomputedData_new(bnWorld, parent.ray)
           reflected == ScaleReflected(BounceTop.value,
                            bnWorld.material[comps.object].reflective)
       IN  bnStack' = [SubSeq(bnStack, 1, Len(bnStack) - 1)
                         EXCEPT ![Len(bnStack) - 1] =
                           [parent EXCEPT
                              !.st = "ret",
                              !.reflected = reflected,
                              !.value = ShadeSum(bnWorld, comps,
                                            parent.surface, reflected)]]
    /\ UNCHANGED <<bnWorld, bnState, bnResult, bnCasts>>
    /\ UNCHANGED notBounce

\* The outermost color_at returns to its caller.
BounceDone ==
    /\ bnState = "running" /\ Len(bnStack) = 1 /\ BounceTop.st = "ret"
    /\ bnState' = "returned"
    /\ bnResult' = BounceTop.value
    /\ bnStack' = <<>>
    /\ UNCHANGED <<bnWorld, bnCasts>>
    /\ UNCHANGED notBounce

NextBounce ==
    \/ BounceMiss
    \/ BounceHit
    \/ BounceReturn
    \/ BounceDone

(***************************************************************************)
(* World::color_at on two worlds that differ only in the transparency and  *)
(* the refractive index of a material.                                     *)
(***************************************************************************)
\* Material::with_transparency, Material::with_refractive_index
with_transparency(m, t) == [m EXCEPT !.transparency = t]
with_refractive_index(m, i) == [m EXCEPT !.refractive_index = i]

\* The worlds equal to w but for those two values of the lower primitive.
Twins(w) ==
    { [w EXCEPT !.material["lower"] =
          with_refractive_index(with_transparency(@, t), i)] :
        t \in Transparencies, i \in RefractiveIndices }

InitTransp ==
    /\ tpWorld \in BounceWorlds
    /\ tpTwin \in Twins(tpWorld)
    /\ tpState = "called"
    /\ tpOut = <<Black, Black>>

IdleTransp ==
    /\ tpWorld = [ray |-> 1, depth |-> 0, hit |-> [r \in Rays |-> NoHit],
                  material |-> [o \in Objs |->
                      [reflective |-> Rat(0, 1), transparency |-> Rat(0, 1),
                       refractive_index |-> Rat(1, 1)]],
                  nlights |-> 0, shadow |-> {}]
    /\ tpTwin = tpWorld
    /\ tpState = "idle"
    /\ tpOut = <<Black, Black>>

\* color_at(r, remaining) on the world and on its twin.
TranspColorAt ==
    /\ tpState = "called"
    /\ tpOut' = <<World_color_at(tpWorld, tpWorld.ray, tpWorld.depth),
                  World_color_at(tpTwin, tpTwin.ray, tpTwin.depth)>>
    /\ tpState' = "done"
    /\ UNCHANGED <<tpWorld, tpTwin>>
    /\ UNCHANGED notTransp

NextTransp == TranspColorAt

(***************************************************************************)
(* World::intersect_world on worlds of spheres and planes, degenerate rays *)
(* included.                                                               *)
(***************************************************************************)
\* Worlds of 0 .. MaxObjects primitives.
XsWorlds == UNION { [1 .. n -> Shapes] : n \in 0 .. MaxObjects }

\* Ray::new accepts any direction, the zero vector included.
ZeroRays ==
    { [origin |-> P3(0, 0, z), direction |-> P3(0, 0, 0)] : z \in {-5, 0} }

XsRays == ShadeRays \cup ZeroRays

\* f64::is_nan: 0/0.
IsNaN(t) == t.den = 0 /\ t.num = 0

\* IntersectionList::new: data.sort_unstable_by(|a, b|
\* a.t.partial_cmp(&b.t).unwrap()) panics when a NaN is compared, and a
\* slice of two or more compares every element.
NewPanics(l) == Len(l) >= 2 /\ \E i \in 1 .. Len(l) : IsNaN(l[i].t)

InitWorldXs ==
    /\ wxWorld \in XsWorlds
    /\ wxRay \in XsRays
    /\ wxState = "called"
    /\ wxOut = <<>>

IdleWorldXs ==
    /\ wxWorld = <<>>
    /\ wxRay = [origin |-> P3(0, 0, 0), direction |-> P3(0, 0, 1)]
    /\ wxState = "idle"
    /\ wxOut = <<>>

\* intersect_world(ray): collect every object's intersections, then
\* Some(IntersectionList::new(xs)).
IntersectWorld ==
    /\ wxState = "called"
    /\ LET collected == Collect(wxWorld, wxRay, 1)
       IN  IF NewPanics(collected)
           THEN /\ wxState' = "panicked"
                /\ wxOut' = <<>>
           ELSE /\ wxState' = "done"
                /\ wxOut' = SortByT(collected)
    /\ UNCHANGED <<wxWorld, wxRay>>
    /\ UNCHANGED notWorldXs

NextWorldXs == IntersectWorld

(***************************************************************************)
(* PrecomputedData::new on the intersections of a sphere or plane.         *)
(***************************************************************************)
\* impl Neg for Vec3
VNeg(v) == <<FNeg(v[1]), FNeg(v[2]), FNeg(v[3])>>

\* impl Mul<f64> for Vec3
VScale(v, k) == <<ColorMul(v[1], k), ColorMul(v[2], k), ColorMul(v[3], k)>>

\* impl Sub for Vec3
VSub(a, b) == <<ColorSub(a[1], b[1]), ColorSub(a[2], b[2]), ColorSub(a[3], b[3])>>

\* Vec3::reflect: *self - other * 2.0 * self.dot(other)
Vec3_reflect(v, other) ==
    VSub(v, VScale(VScale(other, Rat(2, 1)), VDot(v, other)))

\* An inside test that never fires.
InsideNever(normalv, eyev) == FALSE

\* let inside = normalv.dot(&eyev) < 0.0
Inside(normalv, eyev) == FLess(VDot(normalv, eyev), Rat(0, 1))

\* PrecomputedData::new without the refractive indices; <<>> stands for
\* the panic of the expect on normal_at.
Precompute(e, r) ==
    LET world_point == RayPosition(r, e.t)
        eyev == VNeg(r.direction)
        raw == Shape_normal_at(e.object, world_point)
    IN  IF raw = <<>> THEN <<>>
        ELSE LET inside == Inside(raw, eyev)
                 normalv == IF inside THEN VNeg(raw) ELSE raw
             IN  <<[t |-> e.t, object |-> e.object, point |-> world_point,
                    eyev |-> eyev, normalv |-> normalv, inside |-> inside,
                    over_point |-> VAdd(world_point, VScale(normalv, EPS)),
                    reflectv |-> Vec3_reflect(r.direction, normalv)]>>

InitPrecompute ==
    /\ pdShape \in Shapes
    /\ pdRay \in AxisRays
    /\ pdIx \in { Shape_intersect(pdShape, pdRay)[i] :
                    i \in 1 .. Len(Shape_intersect(pdShape, pdRay)) }
    /\ pdState = "called"
    /\ pdComps = <<>>

IdlePrecompute ==
    /\ pdShape = [kind |-> "sphere", transform |-> Identity]
    /\ pdRay = [origin |-> P3(0, 0, 0), direction |-> P3(0, 0, 1)]
    /\ pdIx = [t |-> Rat(0, 1), object |-> pdShape]
    /\ pdState = "idle"
    /\ pdComps = <<>>

\* PrecomputedData::new(ix, &ray, &xs)
PrecomputedDataNew ==
    /\ pdState = "called"
    /\ pdComps' = Precompute(pdIx, pdRay)
    /\ pdState' = IF Precompute(pdIx, pdRay) = <<>> THEN "panicked" ELSE "done"
    /\ UNCHANGED <<pdShape, pdRay, pdIx>>
    /\ UNCHANGED notPrecompute

NextPrecompute == PrecomputedDataNew

(***************************************************************************)
(* Specifications.                                                         *)
(***************************************************************************)
Init ==
    /\ InitRender
    /\ IdleColorAt /\ IdleHit /\ IdleRefr /\ IdleMsaa
    /\ IdleShadow /\ IdleLighting /\ IdleIntersect /\ IdleShade
    /\ IdlePattern /\ IdleBuilder /\ IdleInverse /\ IdleBounce
    /\ IdlePrecompute /\ IdleYaml /\ IdleWorldXs /\ IdleTransp
Next == NextRender
Spec == Init /\ [][Next]_vars

InitColor ==
    /\ InitColorAt
    /\ IdleRender /\ IdleHit /\ IdleRefr /\ IdleMsaa
    /\ IdleShadow /\ IdleLighting /\ IdleIntersect /\ IdleShade
    /\ IdlePattern /\ IdleBuilder /\ IdleInverse /\ IdleBounce
    /\ IdlePrecompute /\ IdleYaml /\ IdleWorldXs /\ IdleTransp
SpecColorAt == InitColor /\ [][NextColorAt]_vars

InitHitSpec ==
    /\ InitHit
    /\ IdleRender /\ IdleColorAt /\ IdleRefr /\ IdleMsaa
    /\ IdleShadow /\ IdleLighting /\ IdleIntersect /\ IdleShade
    /\ IdlePattern /\ IdleBuilder /\ IdleInverse /\ IdleBounce
    /\ IdlePrecompute /\ IdleYaml /\ IdleWorldXs /\ IdleTransp
SpecHit == InitHitSpec /\ [][NextHit]_vars

InitRefrSpec ==
    /\ InitRefr
    /\ IdleRender /\ IdleColorAt /\ IdleHit /\ IdleMsaa
    /\ IdleShadow /\ IdleLighting /\ IdleIntersect /\ IdleShade
    /\ IdlePattern /\ IdleBuilder /\ IdleInverse /\ IdleBounce
    /\ IdlePrecompute /\ IdleYaml /\ IdleWorldXs /\ IdleTransp
SpecRefr == InitRefrSpec /\ [][NextRefr]_vars

InitMsaaSpec ==
    /\ InitMsaa
    /\ IdleRender /\ IdleColorAt /\ IdleHit /\ IdleRefr
    /\ IdleShadow /\ IdleLighting /\ IdleIntersect /\ IdleShade
    /\ IdlePattern /\ IdleBuilder /\ IdleInverse /\ IdleBounce
    /\ IdlePrecompute /\ IdleYaml /\ IdleWorldXs /\ IdleTransp
SpecMsaa == InitMsaaSpec /\ [][NextMsaa]_vars

InitShadowSpec ==
    /\ InitShadow
    /\ IdleRender /\ IdleColorAt /\ IdleHit /\ IdleRefr
    /\ IdleMsaa /\ IdleLighting /\ IdleIntersect /\ IdleShade
    /\ IdlePattern /\ IdleBuilder /\ IdleInverse /\ IdleBounce
    /\ IdlePrecompute /\ IdleYaml /\ IdleWorldXs /\ IdleTransp
SpecShadow == InitShadowSpec /\ [][NextShadow]_vars

InitLightingSpec ==
    /\ InitLighting
    /\ IdleRender /\ IdleColorAt /\ IdleHit /\ IdleRefr
    /\ IdleMsaa /\ IdleShadow /\ IdleIntersect /\ IdleShade
    /\ IdlePattern /\ IdleBuilder /\ IdleInverse /\ IdleBounce
    /\ IdlePrecompute /\ IdleYaml /\ IdleWorldXs /\ IdleTransp
SpecLighting == InitLightingSpec /\ [][NextLighting]_vars

InitIntersectSpec ==
    /\ InitIntersect
    /\ IdleRender /\ IdleColorAt /\ IdleHit /\ IdleRefr
    /\ IdleMsaa /\ IdleShadow /\ IdleLighting /\ IdleShade
    /\ IdlePattern /\ IdleBuilder /\ IdleInverse /\ IdleBounce
    /\ IdlePrecompute /\ IdleYaml /\ IdleWorldXs /\ IdleTransp
SpecIntersect == InitIntersectSpec /\ [][NextIntersect]_vars

InitShadeSpec ==
    /\ InitShade
    /\ IdleRender /\ IdleColorAt /\ IdleHit /\ IdleRefr
    /\ IdleMsaa /\ IdleShadow /\ IdleLighting /\ IdleIntersect
    /\ IdlePattern /\ IdleBuilder /\ IdleInverse /\ IdleBounce
    /\ IdlePrecompute /\ IdleYaml /\ IdleWorldXs /\ IdleTransp
SpecShade == InitShadeSpec /\ [][NextShade]_vars

InitPatternSpec ==
    /\ InitPattern
    /\ IdleRender /\ IdleColorAt /\ IdleHit /\ IdleRefr
    /\ IdleMsaa /\ IdleShadow /\ IdleLighting /\ IdleIntersect
    /\ IdleShade /\ IdleBuilder /\ IdleInverse /\ IdleBounce
    /\ IdlePrecompute /\ IdleYaml /\ IdleWorldXs /\ IdleTransp
SpecPattern == InitPatternSpec /\ [][NextPattern]_vars

InitBuilderSpec ==
    /\ InitBuilder
    /\ IdleRender /\ IdleColorAt /\ IdleHit /\ IdleRefr
    /\ IdleMsaa /\ IdleShadow /\ IdleLighting /\ IdleIntersect
    /\ IdleShade /\ IdlePattern /\ IdleInverse /\ IdleBounce
    /\ IdlePrecompute /\ IdleYaml /\ IdleWorldXs /\ IdleTransp
SpecBuilder == InitBuilderSpec /\ [][NextBuilder]_vars

InitInverseSpec ==
    /\ InitInverse
    /\ IdleRender /\ IdleColorAt /\ IdleHit /\ IdleRefr
    /\ IdleMsaa /\ IdleShadow /\ IdleLighting /\ IdleIntersect
    /\ IdleShade /\ IdlePattern /\ IdleBuilder /\ IdleBounce
    /\ IdlePrecompute /\ IdleYaml /\ IdleWorldXs /\ IdleTransp
SpecInverse == InitInverseSpec /\ [][NextInverse]_vars

InitBounceSpec ==
    /\ InitBounce
    /\ IdleRender /\ IdleColorAt /\ IdleHit /\ IdleRefr
    /\ IdleMsaa /\ IdleShadow /\ IdleLighting /\ IdleIntersect
    /\ IdleShade /\ IdlePattern /\ IdleBuilder /\ IdleInverse
    /\ IdlePrecompute /\ IdleYaml /\ IdleWorldXs /\ IdleTransp
SpecBounce == InitBounceSpec /\ [][NextBounce]_vars

InitPrecomputeSpec ==
    /\ InitPrecompute
    /\ IdleRender /\ IdleColorAt /\ IdleHit /\ IdleRefr
    /\ IdleMsaa /\ IdleShadow /\ IdleLighting /\ IdleIntersect
    /\ IdleShade /\ IdlePattern /\ IdleBuilder /\ IdleInverse
    /\ IdleBounce /\ IdleYaml /\ IdleWorldXs /\ IdleTransp
SpecPrecompute == InitPrecomputeSpec /\ [][NextPrecompute]_vars

InitYamlSpec ==
    /\ InitYaml
    /\ IdleRender /\ IdleColorAt /\ IdleHit /\ IdleRefr
    /\ IdleMsaa /\ IdleShadow /\ IdleLighting /\ IdleIntersect
    /\ IdleShade /\ IdlePattern /\ IdleBuilder /\ IdleInverse
    /\ IdleBounce /\ IdlePrecompute /\ IdleWorldXs /\ IdleTransp
SpecYaml == InitYamlSpec /\ [][NextYaml]_vars

InitWorldXsSpec ==
    /\ InitWorldXs
    /\ IdleRender /\ IdleColorAt /\ IdleHit /\ IdleRefr
    /\ IdleMsaa /\ IdleShadow /\ IdleLighting /\ IdleIntersect
    /\ IdleShade /\ IdlePattern /\ IdleBuilder /\ IdleInverse
    /\ IdleBounce /\ IdlePrecompute /\ IdleYaml /\ IdleTransp
SpecWorldXs == InitWorldXsSpec /\ [][NextWorldXs]_vars

InitTranspSpec ==
    /\ InitTransp
    /\ IdleRender /\ IdleColorAt /\ IdleHit /\ IdleRefr
    /\ IdleMsaa /\ IdleShadow /\ IdleLighting /\ IdleIntersect
    /\ IdleShade /\ IdlePattern /\ IdleBuilder /\ IdleInverse
    /\ IdleBounce /\ IdlePrecompute /\ IdleYaml /\ IdleWorldXs
SpecTransp == InitTranspSpec /\ [][NextTransp]_vars

(***************************************************************************)
(* Claims about Camera::render.                                            *)
(***************************************************************************)
CenterColorAt(p) == WorldColorAt(scene, ray_for_pixel(cam, p[1], p[2], Center))

CenterColor(p) ==
    scale_colors(WorldColorAt(scene, ray_for_pixel(cam, p[1], p[2], Center)))

\* C1: with an invertible camera transform a task writes only its own
\* coordinate and at most once, so no two tasks write the same coordinate;
\* when render returns every pixel has been written exactly once by its own
\* task, and at level 0 the returned buffer is the quantized colour of each
\* pixel's centre ray, whatever the interleaving was.
C1_DisjointWrites ==
    cam.invertible =>
        /\ \A c \in Pixels : writers[c] \subseteq {c}
        /\ \A p \in Pixels : nwrites[p] <= 1
        /\ renderState = "returned" =>
              /\ \A p \in Pixels : nwrites[p] = 1 /\ writers[p] = {p}
              /\ cam.level = 0 => image = [p \in Pixels |-> CenterColor(p)]

C1_Witness ==
    /\ cam.invertible /\ cam.level = 0 /\ renderState = "returned"
    /\ \A p \in Pixels : nwrites[p] = 1
    /\ image[<<0, 0>>] = 192 /\ image[<<1, 0>>] = 255

\* C2 (as claimed): a task that is computing its pixel's colour does not
\* hold the buffer lock.
C2_LockOnlyForWrite ==
    \A p \in Pixels : pc[p] = "tracing" => lockHolder # p

\* C6 (as claimed): with a singular camera transform no write to the buffer
\* is performed for any pixel, at every anti-aliasing setting.
C6_SingularNoWrite ==
    ~cam.invertible => \A p \in Pixels : nwrites[p] = 0

\* C6 (amended): with a singular camera transform no ray is cast (no
\* World::color_at call), no task fails and render does not panic; at
\* level 0 no pixel is written, while at level > 0 each pixel is written
\* once with the strategy's result, which quantizes to black.
C6_SingularSkips ==
    ~cam.invertible =>
        /\ \A p \in Pixels : ncolor[p] = 0 /\ pc[p] # "panicked"
        /\ renderState # "panicked"
        /\ \A p \in Pixels : image[p] = 0
        /\ cam.level = 0 => \A p \in Pixels : nwrites[p] = 0
        /\ (cam.level > 0 /\ renderState = "returned") =>
              \A p \in Pixels : nwrites[p] = 1

C6_Witness ==
    /\ ~cam.invertible /\ cam.level > 0 /\ cam.method = "Multisampling"
    /\ scene.failing # {}
    /\ renderState = "returned"
    /\ \A p \in Pixels : nwrites[p] = 1

\* C9: once a pixel task has failed (or the lock is poisoned) render never
\* returns Ok; it returns only with every task completed, and its only
\* outcomes are Ok(buffer) and a panic of the whole call.
C9_FailureIsFatal ==
    /\ renderState \in {"running", "returned", "panicked"}
    /\ ((\E p \in Pixels : pc[p] = "panicked") \/ poisoned) =>
          renderState # "returned"
    /\ renderState = "returned" => \A p \in Pixels : pc[p] = "done"

C9_Witness ==
    /\ renderState = "panicked"
    /\ poisoned
    /\ \E p \in Pixels : pc[p] = "panicked" /\ nwrites[p] = 0
    /\ \E p \in Pixels : nwrites[p] = 1

\* C10 (as claimed): with level 0 or the stochastic strategy a render call
\* has no abort path: no task fails or is dropped, and once every task has
\* finished each pixel task has written and render has not panicked.
C10_RunsToCompletion ==
    (cam.invertible /\ (cam.level = 0 \/ cam.method = "Stochastic")) =>
        /\ renderState # "panicked"
        /\ \A p \in Pixels : pc[p] \notin {"panicked", "abandoned"}

\* C11 (as claimed): a pixel delegated to the Stochastic strategy has
\* exactly L offsets drawn for it, L being the camera's aa.level (the
\* level render tests against 0).
C11_StochasticDrawsCameraLevel ==
    \A p \in Pixels :
        (cam.level > 0 /\ cam.method = "Stochastic"
            /\ pc[p] \in {"computed", "locked", "done"}) =>
                nsamples[p] = cam.level

\* C13 (as claimed): the buffer render returns holds each pixel's colour
\* as computed, unclamped: reading a pixel back gives the colour color_at
\* computed for it, and pixels with different colours stay different.
C13_BufferUnclamped ==
    (renderState = "returned" /\ cam.invertible /\ cam.level = 0) =>
        /\ \A p \in Pixels : read_pixel(image, p[1], p[2]) = CenterColorAt(p)
        /\ \A p, q \in Pixels :
              CenterColorAt(p) # CenterColorAt(q) =>
                  read_pixel(image, p[1], p[2]) # read_pixel(image, q[1], q[2])

(***************************************************************************)
(* Claims about Multisampling::anti_alias.                                 *)
(***************************************************************************)
\* The estimate after the first k samples, from the history.
EstimateAt(k) ==
    LET cols == SubSeq(msHist, 1, IF k < Len(msHist) THEN k ELSE Len(msHist))
    IN  color_mean_variance(k, SumSquares(cols), SumColors(cols))

Tol2 == Rat(msCfg.tol * msCfg.tol, 1)

Occluders(l) ==
    { i \in 1 .. Len(shRays[l].xs) :
        LET t == shRays[l].xs[i].t
        IN  is_finite(t) /\ ValueOf(t) > 0 /\ ValueOf(t) < ValueOf(shRays[l].dist) }

\* C14 (as claimed): is_shadowed(point, light) returns true exactly when
\* the ray towards that light has a finite, strictly positive intersection
\* nearer than the light, and false otherwise.
C14_ShadowedIffNearerHit ==
    /\ shState # "panicked"
    /\ shState = "done" => shOut = (Occluders(shLight) # {})

(***************************************************************************)
(* Claims about Material::lighting.                                        *)
(***************************************************************************)
BaseColor == IF ltIn.pattern = "some" THEN PatternColor ELSE ltIn.material.color

AmbientTerm ==
    ColorMul(ColorMul(BaseColor, ltIn.intensity), ltIn.material.ambient)

LightDotNormal == Dot(Normalize(VecSub(ltIn.position, ltIn.point)), ltIn.normalv)

\* The eye is on the mirror direction of the light about the normal:
\* reflect_dot_eye > 0.
EyeSeesHighlight ==
    LET l == Normalize(VecSub(ltIn.position, ltIn.point))
    IN  Dot(VecSub(VecScale(ltIn.normalv, 2 * Dot(l, ltIn.normalv)), l),
            ltIn.eyev) > 0

DefaultAtLight ==
    /\ ltIn.material.shininess = 200 /\ ltIn.pattern = "nopattern"
    /\ ltIn.intensity = Rat(1, 1) /\ ltIn.position = <<0, 0, -10>>
    /\ ltIn.eyev = <<0, 0, -1>> /\ ltIn.normalv = <<0, 0, -1>>

\* C15: lighting in shadow returns exactly the ambient term, whatever the
\* eye, normal and light position; out of shadow with the light behind the
\* surface it returns the ambient term too; otherwise ambient + diffuse +
\* specular, the specular term being black when reflect_dot_eye <= 0.  For
\* the default material, eye = normal = (0,0,-1) and a white light at
\* (0,0,-10) this is 1.9 unshadowed and 0.1 shadowed.
C15_LightingTerms ==
    ltState = "done" =>
        /\ ltIn.in_shadow => ltOut = AmbientTerm
        /\ (~ltIn.in_shadow /\ LightDotNormal < 0) => ltOut = AmbientTerm
        /\ (~ltIn.in_shadow /\ LightDotNormal >= 0) =>
              LET diffuse == ColorMul(ColorMul(ColorMul(BaseColor, ltIn.intensity),
                                 ltIn.material.diffuse), Rat(LightDotNormal, 1))
                  specular == IF EyeSeesHighlight
                              THEN ColorMul(ltIn.intensity, ltIn.material.specular)
                              ELSE Black
              IN  ltOut = ColorAdd(AmbientTerm, ColorAdd(diffuse, specular))
        /\ DefaultAtLight =>
              ltOut = IF ltIn.in_shadow THEN Rat(1, 10) ELSE Rat(19, 10)

C15_Witness ==
    /\ ltState = "done" /\ DefaultAtLight /\ ~ltIn.in_shadow
    /\ ltOut = Rat(19, 10)

C7_SingularPatternNotFatal ==
    wld.pattern \in {"singular", "blendedSingularChild"} =>
        callState # "panicked"

(***************************************************************************)
(* Claims about IntersectionList.                                          *)
(***************************************************************************)
Qualifying ==
    { hitInput[i] : i \in { j \in 1 .. Len(hitInput) :
        is_finite(hitInput[j].t) /\ ValueOf(hitInput[j].t) > 0 } }

\* C4 (as claimed): hit returns the entry of minimum t among the entries
\* whose t is finite and strictly positive, and none when no entry
\* qualifies; an entry with t = 0 is never returned.
C4_HitIsMinPositive ==
    hitState = "hit" =>
        IF Qualifying = {} THEN hitResult = NoEntry
        ELSE /\ hitResult \in Qualifying
             /\ \A e \in Qualifying : ValueOf(hitResult.t) <= ValueOf(e.t)

\* C8 (as claimed): building a list and calling hit on it never fails,
\* whatever NaN, infinite, zero or negative t values it holds.
C8_DegenerateNeverFails ==
    hitState # "panicked"

(***************************************************************************)
(* Claims about set_refractive_indices.                                    *)
(***************************************************************************)
Count(list, o, k) == Cardinality({ i \in 1 .. k : list[i].object = o })

Paired(list) ==
    \A o \in RefrObjs : Count(list, o, Len(list)) \in {0, 2}

\* The primitives the ray is inside of after the first k entries: those
\* entered and not yet left.
Open(list, k) == { o \in RefrObjs : Count(list, o, k) % 2 = 1 }

LastSeen(list, o, k) ==
    CHOOSE i \in 1 .. k :
        list[i].object = o /\ \A j \in i + 1 .. k : list[j].object # o

\* The refractive index of the medium after the first k entries: that of
\* the open primitive entered last, or vacuum.
MediumAfter(list, k) ==
    IF Open(list, k) = {} THEN 10
    ELSE LET o == CHOOSE a \in Open(list, k) :
                     \A b \in Open(list, k) :
                         LastSeen(list, b, k) <= LastSeen(list, a, k)
         IN  RefractiveIndex(o)

FirstAt(list, x) ==
    CHOOSE i \in 1 .. Len(list) :
        list[i] = x /\ \A j \in 1 .. i - 1 : list[j] # x

ThreeSpheres ==
    [i \in 1 .. 6 |-> [t |-> i, object |-> <<"A", "B", "C", "B", "C", "A">>[i]]]

\* C5: for ix in a sorted, properly paired list, n1 is the index of the
\* container entered last and not yet left just before ix's entry is
\* toggled (1.0 when there is none) and n2 that just after it; for the
\* spheres A(1.5), B(2.0), C(2.5) hit in the order A,B,C,B,C,A this is
\* n1 = 1.0,1.5,2.0,2.5,2.5,1.5 and n2 = 1.5,2.0,2.5,2.5,1.5,1.0.
C5_RefractiveWalk ==
    (refrState = "done" /\ Paired(xs)) =>
        /\ refrOut = <<MediumAfter(xs, FirstAt(xs, ix) - 1),
                       MediumAfter(xs, FirstAt(xs, ix))>>
        /\ xs = ThreeSpheres =>
              refrOut = << <<10, 15, 20, 25, 25, 15>>[ix.t],
                           <<15, 20, 25, 25, 15, 10>>[ix.t] >>

C5_Witness ==
    /\ refrState = "done" /\ xs = ThreeSpheres
    /\ ix = [t |-> 4, object |-> "B"]
    /\ refrOut = <<25, 25>>

(***************************************************************************)
(* Claims about Sphere::intersect and Plane::intersect.                    *)
(***************************************************************************)
\* The ray in the shape's local space, for an invertible transform.
LocalRay == RayTransform(isRay, inverse(isShape.transform))

\* The local-space point of the ray at parameter t.
LocalAt(t) ==
    <<ColorAdd(LocalRay.origin[1], ColorMul(t, LocalRay.direction[1])),
      ColorAdd(LocalRay.origin[2], ColorMul(t, LocalRay.direction[2])),
      ColorAdd(LocalRay.origin[3], ColorMul(t, LocalRay.direction[3]))>>

\* The discriminant of |origin + t * direction|^2 = 1 in local space.
Discriminant ==
    LET dd == VDot(LocalRay.direction, LocalRay.direction)
        od == VDot(LocalRay.origin, LocalRay.direction)
        oo == VDot(LocalRay.origin, LocalRay.origin)
    IN  ColorSub(ColorMul(Rat(4, 1), ColorMul(od, od)),
                 ColorMul(Rat(4, 1), ColorMul(dd, ColorSub(oo, Rat(1, 1)))))

TsOf(l) == [i \in 1 .. Len(l) |-> l[i].t]

UnitSphere == [kind |-> "sphere", transform |-> Identity]
AlongZ(y, z) == [origin |-> P3(0, y, z), direction |-> P3(0, 0, 1)]

C18_PlaneSingleHit ==
    (isState = "done" /\ isShape.kind = "plane"
        /\ isShape.transform # Singular) =>
        /\ FLess(FAbs(LocalRay.direction[2]), EPS) => isOut = <<>>
        /\ ~FLess(FAbs(LocalRay.direction[2]), EPS) =>
              /\ Len(isOut) = 1
              /\ isOut[1].object = isShape
              /\ LocalAt(isOut[1].t)[2] = Rat(0, 1)
        /\ (isShape.transform = Identity
              /\ isRay \in { [origin |-> P3(0, 1, 0), direction |-> P3(0, -1, 0)],
                             [origin |-> P3(0, -1, 0), direction |-> P3(0, 1, 0)] })
              => TsOf(isOut) = <<Rat(1, 1)>>

C18_Witness ==
    /\ isState = "done"
    /\ isShape = [kind |-> "plane", transform |-> Identity]
    /\ isRay = [origin |-> P3(0, 10, 0),
                direction |-> <<Rat(0, 1), Rat(-1, 100000), Rat(1, 1)>>]
    /\ TsOf(isOut) = <<Rat(1000000, 1)>>

(***************************************************************************)
(* Claims about primitives with a singular transform.                      *)
(***************************************************************************)
SingularObjects == { i \in 1 .. Len(sdWorld) : sdWorld[i].transform = Singular }

\* The ray meets object i and object i has an invertible transform.
MeetsInvertible(i) ==
    /\ i \notin SingularObjects
    /\ IF sdWorld[i].kind = "sphere"
       THEN Sphere_intersect(sdWorld[i], sdRay) # <<>>
       ELSE Plane_intersect(sdWorld[i], sdRay) # <<>>

\* C16: a sphere or plane whose transform has no inverse yields no
\* intersections and no normal, so it is never in the intersection list and
\* never the hit; World::color_at never panics on the normal of a hit, and
\* a ray that meets no invertible object is coloured black.
C16_SingularNeverShaded ==
    /\ \A i \in SingularObjects :
          /\ Shape_intersect(sdWorld[i], sdRay) = <<>>
          /\ Shape_normal_at(sdWorld[i], sdRay.origin) = <<>>
    /\ \A k \in 1 .. Len(sdXs) : sdXs[k].object.transform # Singular
    /\ sdHit # NoShadeHit => sdHit.object.transform # Singular
    /\ sdState # "panicked"
    /\ (sdState \in {"black", "shaded"}
          /\ \A i \in 1 .. Len(sdWorld) : ~MeetsInvertible(i))
          => sdState = "black"

C16_Witness ==
    /\ sdWorld = << [kind |-> "sphere", transform |-> Singular],
                    [kind |-> "plane", transform |-> Singular] >>
    /\ sdRay = [origin |-> P3(0, 1, -5), direction |-> P3(0, -1, 0)]
    /\ sdXs = <<>>
    /\ sdState = "black"

(***************************************************************************)
(* Claims about stripes and rings.                                         *)
(***************************************************************************)
\* The integer k with k <= a < k + 1.
IntegerPart(a) ==
    CHOOSE k \in -3 .. 3 : k * a.den <= a.num /\ a.num < (k + 1) * a.den

IsInteger(a) == a.den = 1

\* The square of the distance from the y axis.
AxisDistance2 ==
    ColorAdd(ColorMul(ptPoint[1], ptPoint[1]), ColorMul(ptPoint[3], ptPoint[3]))

\* The integer part of the distance from the y axis.
RingNumber ==
    CHOOSE k \in 0 .. 3 :
        ~FLess(AxisDistance2, Rat(k * k, 1))
        /\ FLess(AxisDistance2, Rat((k + 1) * (k + 1), 1))

ColorNumber(k) == ptPattern.colors[(k % Len(ptPattern.colors)) + 1]

Mirrored == <<FNeg(ptPoint[1]), ptPoint[2], ptPoint[3]>>

\* C19 (as claimed): stripes return colors[floor(|x|) mod len], rings
\* colors[floor(distance from the y axis) mod len], and a stripe pattern
\* has the same colour at x and at -x.
C19_IndexFloorOfAbs ==
    ptState = "done" =>
        /\ ptPattern.kind = "stripes" =>
              /\ ptOut = ColorNumber(IntegerPart(FAbs(ptPoint[1])))
              /\ ptOut = StripePattern_color_at(ptPattern, Mirrored)
        /\ ptPattern.kind = "rings" => ptOut = ColorNumber(RingNumber)

\* C19 (amended): stripes return colors[|floor(x)| mod len], which is
\* colors[floor(|x|) mod len] for x >= 0 and for integer x, and the next
\* colour of the cycle for negative x that is not an integer; the colours
\* at x and -x are the same when x is an integer.  Rings return
\* colors[floor(distance from the y axis) mod len].
C19_IndexAbsOfFloor ==
    ptState = "done" =>
        /\ ptPattern.kind = "stripes" =>
              /\ ptOut = ColorNumber(Abs(IntegerPart(ptPoint[1])))
              /\ (ptPoint[1].num >= 0 \/ IsInteger(ptPoint[1])) =>
                    ptOut = ColorNumber(IntegerPart(FAbs(ptPoint[1])))
              /\ (ptPoint[1].num < 0 /\ ~IsInteger(ptPoint[1])) =>
                    ptOut = ColorNumber(IntegerPart(FAbs(ptPoint[1])) + 1)
              /\ IsInteger(ptPoint[1]) =>
                    ptOut = StripePattern_color_at(ptPattern, Mirrored)
        /\ ptPattern.kind = "rings" => ptOut = ColorNumber(RingNumber)

C19_Witness ==
    /\ ptState = "done"
    /\ ptPattern = [kind |-> "stripes", colors |-> <<"white", "black", "red">>]
    /\ ptPoint = <<Rat(-3, 2), Rat(0, 1), Rat(1, 1)>>
    /\ ptOut = "red"
    /\ StripePattern_color_at(ptPattern, Mirrored) = "black"

TwoStripes == [kind |-> "stripes", colors |-> <<"white", "black">>]

\* x lies in the half-open interval [lo, lo + 1).
InUnit(lo) ==
    ~FLess(ptPoint[1], Rat(lo, 1)) /\ FLess(ptPoint[1], Rat(lo + 1, 1))

\* C20: a two-colour stripe pattern does not depend on y or z and gives the
\* first colour for x in [0,1) and [-2,-1), the second for x in [1,2) and
\* [-1,0): the second at x = -0.1 and x = -1.0, the first at x = -1.1.
C20_StripesAlternate ==
    (ptState = "done" /\ ptPattern = TwoStripes) =>
        /\ (InUnit(0) \/ InUnit(-2)) => ptOut = "white"
        /\ (InUnit(1) \/ InUnit(-1)) => ptOut = "black"
        /\ ptPoint[1] \in {Rat(-1, 10), Rat(-1, 1)} => ptOut = "black"
        /\ ptPoint[1] = Rat(-11, 10) => ptOut = "white"
        /\ ptOut = StripePattern_color_at(ptPattern,
                       <<ptPoint[1], Rat(0, 1), Rat(0, 1)>>)

C20_Witness ==
    /\ ptState = "done"
    /\ ptPattern = TwoStripes
    /\ ptPoint = <<Rat(-11, 10), Rat(1, 1), Rat(2, 1)>>
    /\ ptOut = "white"

(***************************************************************************)
(* Claims about the per-pixel work of Camera::render.                      *)
(***************************************************************************)
\* C25 (as claimed): a pixel whose task has completed made, at level 0,
\* exactly one color_at call, on the centre ray with the caller's depth,
\* and at level > 0 no centre-ray call and exactly one strategy call,
\* whose colour it wrote.
C25_OneRayOrOneStrategy ==
    \A p \in Pixels : pc[p] = "done" =>
        /\ cam.level = 0 =>
              ncolor[p] = 1 /\ cdepth[p] = {rdepth} /\ naa[p] = 0
        /\ cam.level > 0 =>
              /\ cdepth[p] = {} /\ naa[p] = 1
              /\ image[p] = scale_colors(pending[p])

\* C25 (amended): at level 0 a task never calls the strategy and makes at
\* most one color_at call, on the centre ray with the caller's depth; a
\* completed task made exactly one and wrote its pixel when the camera
\* transform is invertible, and made none when it is singular.  At
\* level > 0 a task makes no centre-ray call and at most one strategy call;
\* a completed task made exactly one, and wrote the colour the strategy
\* returned for the offsets it drew.
C25_PerPixelWork ==
    \A p \in Pixels :
        /\ cam.level = 0 =>
              /\ naa[p] = 0 /\ ncolor[p] <= 1 /\ cdepth[p] \subseteq {rdepth}
              /\ Cardinality(cdepth[p]) = ncolor[p]
              /\ pc[p] = "done" =>
                    IF cam.invertible
                    THEN ncolor[p] = 1 /\ nwrites[p] = 1
                         /\ image[p] = CenterColor(p)
                    ELSE ncolor[p] = 0 /\ nwrites[p] = 0
        /\ cam.level > 0 =>
              /\ cdepth[p] = {} /\ naa[p] <= 1
              /\ pc[p] \in {"computed", "locked", "done"} =>
                    /\ naa[p] = 1
                    /\ \E offs \in DrawnOffsets(cam, scene, p) :
                          pending[p] = anti_alias(cam, scene, p, offs)
              /\ pc[p] = "done" =>
                    nwrites[p] = 1 /\ image[p] = scale_colors(pending[p])

C25_Witness ==
    /\ renderState = "returned" /\ cam.invertible /\ cam.level = 0
    /\ rdepth = MaxDepth
    /\ \A p \in Pixels : ncolor[p] = 1 /\ cdepth[p] = {MaxDepth} /\ naa[p] = 0

(***************************************************************************)
(* Claims about the AntiAliasing builder.                                  *)
(***************************************************************************)
\* The position of the last call of an operation, 0 when there is none.
LastCall(op) ==
    LET at == { i \in 1 .. Len(bdCalls) : bdCalls[i].op = op }
    IN  IF at = {} THEN 0 ELSE CHOOSE i \in at : \A j \in at : j <= i

\* The method installed by the last with_method, or the default one.
InstalledMethod ==
    IF LastCall("with_method") = 0 THEN StochasticDefault
    ELSE bdCalls[LastCall("with_method")].arg

\* The value a setter left in the method: that of its last call when it
\* came after the last with_method, the installed method's own otherwise.
MethodValue(op, own) ==
    IF LastCall(op) > LastCall("with_method") THEN bdCalls[LastCall(op)].arg
    ELSE own

\* C27: the method is the one installed last; its level is the argument of
\* the last with_level made after that with_method, its tolerance (for
\* Multisampling) the argument of the last with_tolerance made after it,
\* and its own values otherwise.  So method, level, tolerance propagates l
\* and e, level, tolerance, method leaves the method as it was given, and
\* the two orders give the same builder only when l and e are the method's
\* own values.
C27_BuilderOrder ==
    bdState = "building" =>
        /\ bdAa.method.kind = InstalledMethod.kind
        /\ bdAa.method.level = MethodValue("with_level", InstalledMethod.level)
        /\ bdAa.method.tol =
              IF InstalledMethod.kind = "Multisampling"
              THEN MethodValue("with_tolerance", InstalledMethod.tol)
              ELSE NoTolerance
        /\ (Len(bdCalls) = 3 /\ bdCalls[1].op = "with_method"
              /\ bdCalls[2].op = "with_level"
              /\ bdCalls[3].op = "with_tolerance") =>
              /\ bdAa.method.level = bdCalls[2].arg
              /\ bdAa.method.kind = "Multisampling" =>
                    bdAa.method.tol = bdCalls[3].arg
        /\ (Len(bdCalls) = 3 /\ bdCalls[1].op = "with_level"
              /\ bdCalls[2].op = "with_tolerance"
              /\ bdCalls[3].op = "with_method") =>
              /\ bdAa.method = bdCalls[3].arg
              /\ bdAa.level = bdCalls[1].arg /\ bdAa.tol = bdCalls[2].arg
              /\ (bdAa = ApplyCalls(AntiAliasingDefault,
                            <<bdCalls[3], bdCalls[1], bdCalls[2]>>))
                 <=> (/\ bdCalls[1].arg = bdCalls[3].arg.level
                      /\ bdCalls[3].arg.kind = "Multisampling" =>
                            bdCalls[2].arg = bdCalls[3].arg.tol)

C27_Witness ==
    /\ bdCalls = << [op |-> "with_level", arg |-> 2],
                    [op |-> "with_tolerance", arg |-> 2],
                    [op |-> "with_method", arg |-> MultisamplingDefault] >>
    /\ bdAa = [method |-> MultisamplingDefault, level |-> 2, tol |-> 2]
    /\ ApplyCalls(AntiAliasingDefault, <<bdCalls[3], bdCalls[1], bdCalls[2]>>)
          = [method |-> [kind |-> "Multisampling", level |-> 2, tol |-> 2],
             level |-> 2, tol |-> 2]

(***************************************************************************)
(* Claims about the YAML camera entry.                                     *)
(***************************************************************************)
SomeRequiredMissing ==
    \E i \in 1 .. Len(RequiredKeys) : ymEntry.keys[i] = "missing"

\* C30 (as claimed): make_camera returns None exactly when one of hsize,
\* vsize, fov, from, to, up is missing; with all six it returns a camera,
\* with or without the `aa` block or its `method` key.
C30_NoneIffRequiredMissing ==
    ymState \in {"done", "panicked"} =>
        /\ ymState = "done"
        /\ (ymOut = NoCamera) <=> SomeRequiredMissing

(***************************************************************************)
(* Claims about Matrix::inverse.                                           *)
(***************************************************************************)
Permutations4 ==
    { p \in [1 .. 4 -> 1 .. 4] : \A i, j \in 1 .. 4 : i # j => p[i] # p[j] }

Inversions(p) ==
    Cardinality({ ij \in (1 .. 4) \X (1 .. 4) :
                    ij[1] < ij[2] /\ p[ij[1]] > p[ij[2]] })

\* The sum of the products along the even (or odd) permutations.
RECURSIVE PermutationSum(_, _)
PermutationSum(m, ps) ==
    IF ps = {} THEN Rat(0, 1)
    ELSE LET p == CHOOSE q \in ps : TRUE
         IN  ColorAdd(ColorMul(ColorMul(m[1][p[1]], m[2][p[2]]),
                               ColorMul(m[3][p[3]], m[4][p[4]])),
                      PermutationSum(m, ps \ {p}))

\* A matrix is singular when its even and odd permutation sums cancel.
IsSingular(m) ==
    PermutationSum(m, { p \in Permutations4 : Inversions(p) % 2 = 0 })
        = PermutationSum(m, { p \in Permutations4 : Inversions(p) % 2 = 1 })

\* C22: inverse returns None exactly for the singular matrices (never a
\* failure); for an invertible M it returns a matrix with
\* M * inverse(M) = inverse(M) * M = identity, and inverse(inverse(M)) = M.
C22_InverseRoundTrip ==
    /\ mxState \in {"inverted", "back"} =>
          /\ (mxOut = NoMatrix) <=> IsSingular(mxIn)
          /\ mxOut # NoMatrix =>
                /\ MatMul(mxIn, mxOut) = Identity4
                /\ MatMul(mxOut, mxIn) = Identity4
    /\ mxState = "back" => mxBack = mxIn

C22_Witness ==
    /\ mxState = "back"
    /\ mxIn = MatMul(Matrix_translation(2, 2, -1), Matrix_scaling(2, -1, -1))
    /\ mxOut[1] = <<Rat(1, 2), Rat(0, 1), Rat(0, 1), Rat(-1, 1)>>
    /\ mxBack = mxIn


(***************************************************************************)
(* C23, C24: the colours of reflected_color and shade_hit, against a       *)
(* direct evaluation of the world.                                         *)
(***************************************************************************)
\* The contribution of light l to a hit point.
LampShare(w, l) ==
    IF l \in w.shadow THEN Rat(1, 10 * l) ELSE Rat(19, 10 * l)

RECURSIVE LampSum(_, _)
LampSum(w, lamps) ==
    IF lamps = {} THEN Rat(0, 1)
    ELSE LET l == CHOOSE x \in lamps : TRUE
         IN  ColorAdd(LampShare(w, l), LampSum(w, lamps \ {l}))

Reflectivity(w, r) == w.material[w.hit[r]].reflective

Bounces(w, r, rem) ==
    w.hit[r] # NoHit /\ rem # 0 /\ Reflectivity(w, r).num # 0

\* The colour of ray r with rem bounces left.
RECURSIVE ExpectedColor(_, _, _)
ExpectedColor(w, r, rem) ==
    IF w.hit[r] = NoHit THEN Rat(0, 1)
    ELSE ColorAdd(LampSum(w, 1 .. w.nlights),
             IF Bounces(w, r, rem)
             THEN ColorMul(Reflectivity(w, r),
                           ExpectedColor(w, 3 - r, rem - 1))
             ELSE Rat(0, 1))

\* The nested rays of ray r with rem bounces left, in casting order.
RECURSIVE ExpectedCasts(_, _, _)
ExpectedCasts(w, r, rem) ==
    IF Bounces(w, r, rem)
    THEN <<[ray |-> 3 - r, remaining |-> rem - 1]>>
             \o ExpectedCasts(w, 3 - r, rem - 1)
    ELSE <<>>

\* C23: reflected_color is black, and casts no ray, when remaining is 0 or
\* the hit material's reflective coefficient is 0; otherwise it casts the
\* ray (over_point, reflectv) with remaining - 1 and returns reflective
\* times the colour of that ray.
C23_ReflectedColor ==
    /\ \A k \in 1 .. Len(bnStack) :
        LET f == bnStack[k] IN
        /\ f.st = "wait" =>
             /\ Bounces(bnWorld, f.ray, f.remaining)
             /\ k < Len(bnStack)
             /\ bnStack[k + 1].ray = 3 - f.ray
             /\ bnStack[k + 1].remaining = f.remaining - 1
        /\ (f.st = "ret" /\ bnWorld.hit[f.ray] # NoHit) =>
             f.reflected =
                 IF Bounces(bnWorld, f.ray, f.remaining)
                 THEN ColorMul(Reflectivity(bnWorld, f.ray),
                          ExpectedColor(bnWorld, 3 - f.ray, f.remaining - 1))
                 ELSE Rat(0, 1)
        /\ (f.st = "ret" /\ ~Bounces(bnWorld, f.ray, f.remaining)) =>
             k = Len(bnStack)
    /\ bnState = "returned" =>
        bnCasts = ExpectedCasts(bnWorld, bnWorld.ray, bnWorld.depth)

\* Two bounces were cast, the first scaled by 1/2, and the third was cut
\* off by remaining = 0 on a reflective material.
C23_Witness ==
    /\ bnState = "returned"
    /\ bnWorld.depth = 2
    /\ bnWorld.hit = [r \in Rays |-> IF r = 1 THEN "lower" ELSE "upper"]
    /\ bnWorld.ray = 1
    /\ bnWorld.material["lower"].reflective = Rat(1, 2)
    /\ bnWorld.material["upper"].reflective = Rat(1, 1)
    /\ bnWorld.nlights = 1 /\ bnWorld.shadow = {}
    /\ Len(bnCasts) = 2
    /\ bnResult = Rat(19, 5)

C21_TransparencyUnused ==
    tpState = "done" => tpOut[1] = tpOut[2]

\* The ray hits the primitive whose transparency and refractive index
\* differ between the two worlds, the indices computed for the hit differ,
\* and the ray is reflected on.
C21_Witness ==
    /\ tpState = "done"
    /\ tpWorld.hit[tpWorld.ray] = "lower"
    /\ tpWorld.material["lower"].transparency = Rat(0, 1)
    /\ tpTwin.material["lower"].transparency = Rat(1, 1)
    /\ PrecomputedData_new(tpWorld, tpWorld.ray).n2 = Rat(1, 1)
    /\ PrecomputedData_new(tpTwin, tpTwin.ray).n2 = Rat(3, 2)
    /\ tpWorld.depth = MaxBounce
    /\ tpWorld.material["lower"].reflective = Rat(1, 2)
    /\ tpWorld.hit[3 - tpWorld.ray] = "upper"
    /\ tpOut[1] # Rat(0, 1)

(***************************************************************************)
(* C29: the refractive indices of consecutive entries.                     *)
(***************************************************************************)
Distinct(list) ==
    \A i, j \in 1 .. Len(list) : i # j => list[i] # list[j]

\* C29: in a sorted list where every primitive is a proper entry/exit pair
\* and no two entries are equal, n2 of an entry is n1 of the next entry,
\* n1 of the first entry is 1.0 and n2 of the last entry is 1.0.
C29_IndicesChain ==
    (refrState = "done" /\ Paired(xs) /\ Distinct(xs)) =>
        LET i == FirstAt(xs, ix)
        IN  /\ i < Len(xs) =>
                 refrOut[2] = set_refractive_indices(xs[i + 1], xs)[1]
            /\ i = 1 => refrOut[1] = 10
            /\ i = Len(xs) => refrOut[2] = 10

\* The third entry of the three spheres: the ray enters C inside B, and
\* the fourth entry starts from C's index.
C29_Witness ==
    /\ refrState = "done" /\ xs = ThreeSpheres
    /\ ix = [t |-> 3, object |-> "C"]
    /\ refrOut = <<20, 25>>
    /\ set_refractive_indices(xs[4], xs)[1] = 25


(***************************************************************************)
(* C26: the list of intersect_world.                                       *)
(***************************************************************************)
RECURSIVE CountSum(_, _, _)
CountSum(objects, r, i) ==
    IF i = 0 THEN 0
    ELSE Len(Shape_intersect(objects[i], r)) + CountSum(objects, r, i - 1)

Occurrences(l, e) == Cardinality({ i \in 1 .. Len(l) : l[i] = e })

\* C26: intersect_world always returns a list, which holds exactly the
\* intersections of every primitive with the ray (as many entries as the
\* primitives returned together) in ascending order of t.
C26_UnionSorted ==
    /\ wxState # "panicked"
    /\ wxState = "done" =>
        /\ Len(wxOut) = CountSum(wxWorld, wxRay, Len(wxWorld))
        /\ \A k \in 1 .. Len(wxWorld) :
             \A e \in { Shape_intersect(wxWorld[k], wxRay)[i] :
                          i \in 1 .. Len(Shape_intersect(wxWorld[k], wxRay)) } :
                 Occurrences(wxOut, e)
                     = Occurrences(Collect(wxWorld, wxRay, 1), e)
        /\ \A i \in 1 .. Len(wxOut) - 1 : ~FLess(wxOut[i + 1].t, wxOut[i].t)


(***************************************************************************)
(* C28: the geometry of a precomputed hit.                                 *)
(***************************************************************************)
\* The hit point and the primitive's own normal there: the vector from the
\* centre for a sphere, +y for a plane.
HitPoint ==
    <<ColorAdd(pdRay.origin[1], ColorMul(pdIx.t, pdRay.direction[1])),
      ColorAdd(pdRay.origin[2], ColorMul(pdIx.t, pdRay.direction[2])),
      ColorAdd(pdRay.origin[3], ColorMul(pdIx.t, pdRay.direction[3]))>>

RawNormal ==
    IF pdShape.kind = "plane" THEN P3(0, 1, 0)
    ELSE <<ColorSub(HitPoint[1], pdShape.transform.v[1]),
           ColorSub(HitPoint[2], pdShape.transform.v[2]),
           ColorSub(HitPoint[3], pdShape.transform.v[3])>>

Dot3(a, b) ==
    ColorAdd(ColorAdd(ColorMul(a[1], b[1]), ColorMul(a[2], b[2])),
             ColorMul(a[3], b[3]))

Negative(a) == a.num < 0 /\ a.den > 0

\* C28: eyev is the negated direction; inside holds exactly when the raw
\* normal has a negative dot product with eyev; the stored normal is the
\* raw normal, negated when inside, so its dot product with eyev is never
\* negative; reflectv is the direction reflected about the stored normal
\* and over_point is the hit point plus the stored normal times EPS.
C28_PrecomputedGeometry ==
    pdState = "done" =>
        LET c == pdComps[1]
            d == pdRay.direction
        IN  /\ \A k \in 1 .. 3 : c.eyev[k] = Rat(-d[k].num, d[k].den)
            /\ c.inside <=> Negative(Dot3(RawNormal, c.eyev))
            /\ \A k \in 1 .. 3 :
                 c.normalv[k] =
                     IF c.inside
                     THEN Rat(-RawNormal[k].num, RawNormal[k].den)
                     ELSE RawNormal[k]
            /\ ~Negative(Dot3(c.normalv, c.eyev))
            /\ \A k \in 1 .. 3 :
                 c.reflectv[k] =
                     ColorSub(d[k], ColorMul(ColorMul(Rat(2, 1),
                                  Dot3(d, c.normalv)), c.normalv[k]))
            /\ \A k \in 1 .. 3 :
                 c.over_point[k] =
                     ColorAdd(HitPoint[k],
                              ColorMul(c.normalv[k], Rat(1, 100000)))

\* hit_when_intersection_on_inside: a ray from the centre of the unit
\* sphere hits it at t = 1 from inside; the stored normal points back.
C28_Witness ==
    /\ pdState = "done"
    /\ pdShape = [kind |-> "sphere", transform |-> Identity]
    /\ pdRay = [origin |-> P3(0, 0, 0), direction |-> P3(0, 0, 1)]
    /\ pdIx.t = Rat(1, 1)
    /\ pdComps[1].inside
    /\ pdComps[1].normalv = P3(0, 0, -1)
    /\ pdComps[1].eyev = P3(0, 0, -1)
    /\ pdComps[1].over_point = <<Rat(0, 1), Rat(0, 1), Rat(99999, 100000)>>

====
